---- MODULE Spec2Model ----
(***************************************************************************)
(* Verification model of parts of the rivet engine repository:             *)
(*   - the dashboard's patch-build-tags mutation (single-current builds),  *)
(*   - the matchmaker's bulk capacity-reset Redis script,                  *)
(*   - the get-or-create actor endpoint (PUT /actors),                     *)
(*   - the release tool's version-bump step,                               *)
(*   - the actor SDK's size-bounded JSON serializer,                       *)
(*   - the release tool's entry point and its SDK publishing step,         *)
(*   - the dashboard's query retry rule and destroy-actor invalidation,    *)
(*   - the SDK generation script and the node bootstrap script,            *)
(*   - a reader of the builds next to the patch-build-tags mutation,       *)
(*   - the dashboard's actor state tab and provider-connection check,      *)
(*   - the example workload's start script, the example template           *)
(*     generator, and the sites' shared syntax highlighter.                *)
(* Each part has its own specification; the variables of the other parts   *)
(* stay at their idle values.                                              *)
(***************************************************************************)
EXTENDS Integers, Sequences, FiniteSets, TLC

VARIABLES
    builds,      \* build id -> [name, current]: the tags the API server stores
    mut,         \* mutation slot -> state of one run of mutationFn
    redis,       \* the matchmaker's Redis keyspace: strings, hashes, sorted sets
    call,        \* the arguments of the last capacity reset that ran, with a tick
    snap,        \* what a matchmaker client last read for one lobby
    actors,      \* <<namespace, lookup key>> -> the actor registered under it, if any
    calls,       \* the get-or-create calls served so far, oldest first
    files,       \* path -> the file of the repository tree at that path
    orig,        \* the tree as it was when updateVersion started
    bump,        \* where updateVersion is, and what it has written and staged
    obj,         \* safeStringify's first argument, a JSON value
    maxSize,     \* safeStringify's second argument
    result,      \* what the call did: nothing yet, threw, or returned a string
    rel,         \* one invocation of the release tool: arguments, position, trace
    sdk,         \* one run of publishSdk: registry, position, commands run
    query,       \* one dashboard query: its error, failure count, fetch state
    cache,       \* the dashboard's query cache and the destroy mutation's state
    fern,        \* one run of the SDK generation script and its two background jobs
    boot,        \* one run of the node bootstrap script
    seen,        \* what a reader of the builds last listed for one name group
    tab,         \* the actor state tab: its props, its hooks' values, its view
    ready,       \* one run of the example workload's start script
    tmpl,        \* the example templates' output directories and one generator run
    shiki,       \* the module-level highlighter slot and the highlight requests
    conn         \* the provider-connection check: form values, runner list, timer

buildVars == <<builds, mut>>

resetVars == <<redis, call, snap>>

actorVars == <<actors, calls>>

bumpVars == <<files, orig, bump>>

jsonVars == <<obj, maxSize, result>>

appVars == <<tab, ready, tmpl, shiki, conn>>

toolVars == <<rel, sdk, query, cache, fern, boot, appVars>>

\* What the actions of each part leave alone.
notBuildVars == <<resetVars, actorVars, bumpVars, jsonVars, toolVars, seen>>

notResetVars == <<buildVars, actorVars, bumpVars, jsonVars, toolVars, seen>>

notActorVars == <<buildVars, resetVars, bumpVars, jsonVars, toolVars, seen>>

notBumpVars == <<buildVars, resetVars, actorVars, jsonVars, toolVars, seen>>

notJsonVars == <<buildVars, resetVars, actorVars, bumpVars, toolVars, seen>>

coreVars == <<buildVars, resetVars, actorVars, bumpVars, jsonVars, seen, appVars>>

notRelVars == <<coreVars, sdk, query, cache, fern, boot>>

notSdkVars == <<coreVars, rel, query, cache, fern, boot>>

notQueryVars == <<coreVars, rel, sdk, cache, fern, boot>>

notCacheVars == <<coreVars, rel, sdk, query, fern, boot>>

notFernVars == <<coreVars, rel, sdk, query, cache, boot>>

notBootVars == <<coreVars, rel, sdk, query, cache, fern>>

baseVars == <<buildVars, resetVars, actorVars, bumpVars, jsonVars, seen,
              rel, sdk, query, cache, fern, boot>>

notTabVars == <<baseVars, ready, tmpl, shiki, conn>>

notReadyVars == <<baseVars, tab, tmpl, shiki, conn>>

notTmplVars == <<baseVars, tab, ready, shiki, conn>>

notShikiVars == <<baseVars, tab, ready, tmpl, conn>>

notConnVars == <<baseVars, tab, ready, tmpl, shiki>>

vars == <<builds, mut, redis, call, snap, actors, calls, files, orig, bump, obj, maxSize, result,
          rel, sdk, query, cache, fern, boot, seen, tab, ready, tmpl, shiki, conn>>

(***************************************************************************)
(* Part 1: usePatchActorBuildTagsMutation                                  *)
(***************************************************************************)

\* Number of builds in the environment.
NumBuilds == 3

BuildIds == 1..NumBuilds

\* The mutation runs that may be in flight at once.
MutIds == {1, 2}

\* A tag that is not set on a build (tags.name / tags.current undefined).
NoTag == "<unset>"

\* JSON null in a patch body: removes the tag.
Null == "<null>"

Names == {"a", "b"}

\* JavaScript truthiness of an optional string tag (mutations.ts:78).
Truthy(s) == s # NoTag /\ s # ""

\* request bodies the dashboard sends: tag the build current, or untag it.
Requests == {[current |-> "true"], [current |-> Null]}

\* A mutation slot at rest. listed, cleared and overlapped record the run's
\* history: what the listing returned, the builds it has untagged, and whether
\* another run was in flight with it.
Idle == [pc |-> "idle", buildId |-> 0, request |-> [current |-> Null],
         ogBuild |-> NoTag, currentBuilds |-> <<>>, listed |-> <<>>, cleared |-> {},
         overlapped |-> FALSE]

InFlight(m) == mut[m].pc \in {"get", "list", "clear", "patch"}

\* The ascending sequence of the elements of a finite set of integers.
RECURSIVE SortedSeq(_)
SortedSeq(S) ==
    IF S = {} THEN <<>>
    ELSE LET x == CHOOSE y \in S : \A z \in S : y <= z
         IN <<x>> \o SortedSeq(S \ {x})

\* rivetClient.builds.list with tagsJson {name, current: "true"}.
ListBuilds(name) ==
    SortedSeq({b \in BuildIds : builds[b].name = name /\ builds[b].current = "true"})

\* patchTags as it would be if a null value left the tag in place.
PatchTagsIgnoresNull(bs, b, tags) ==
    [bs EXCEPT ![b].current = IF tags.current = Null THEN @ ELSE tags.current]

\* rivetClient.builds.patchTags: a null value removes the tag, a string sets it.
PatchTags(bs, b, tags) ==
    [bs EXCEPT ![b].current = IF tags.current = Null THEN NoTag ELSE tags.current]

\* mutate(): a run of mutationFn starts; its first await is builds.get.
StartMutation(m, b, req) ==
    /\ mut[m].pc = "idle"
    /\ mut' = [k \in MutIds |->
                 IF k = m
                 THEN [Idle EXCEPT !.pc = "get", !.buildId = b, !.request = req,
                                   !.overlapped = \E j \in MutIds : InFlight(j)]
                 ELSE IF InFlight(k) THEN [mut[k] EXCEPT !.overlapped = TRUE]
                 ELSE mut[k]]
    /\ UNCHANGED builds
    /\ UNCHANGED notBuildVars

\* builds.get resolves: ogBuild is read, and the branch of line 77 is taken.
GetBuild(m) ==
    /\ mut[m].pc = "get"
    /\ LET name == builds[mut[m].buildId].name
       IN mut' = [mut EXCEPT ![m].ogBuild = name,
                             ![m].pc = IF Truthy(name) /\ mut[m].request.current = "true"
                                       THEN "list" ELSE "patch"]
    /\ UNCHANGED builds
    /\ UNCHANGED notBuildVars

\* builds.list resolves with the builds of that name tagged current.
ListCurrentBuilds(m) ==
    /\ mut[m].pc = "list"
    /\ mut' = [mut EXCEPT ![m].currentBuilds = ListBuilds(mut[m].ogBuild),
                          ![m].listed = ListBuilds(mut[m].ogBuild),
                          ![m].pc = "clear"]
    /\ UNCHANGED builds
    /\ UNCHANGED notBuildVars

\* One iteration of the for loop: the clear-tag patch of the next listed build.
ClearNext(m) ==
    /\ mut[m].pc = "clear"
    /\ mut[m].currentBuilds # <<>>
    /\ builds' = PatchTags(builds, Head(mut[m].currentBuilds), [current |-> Null])
    /\ mut' = [mut EXCEPT ![m].currentBuilds = Tail(@),
                          ![m].cleared = @ \cup {Head(mut[m].currentBuilds)}]
    /\ UNCHANGED notBuildVars

\* The loop left while listed builds remain.
ClearDoneEarly(m) ==
    /\ mut[m].pc = "clear"
    /\ mut' = [mut EXCEPT ![m].pc = "patch"]
    /\ UNCHANGED builds
    /\ UNCHANGED notBuildVars

\* The loop has run out of listed builds.
ClearDone(m) ==
    /\ mut[m].pc = "clear"
    /\ mut[m].currentBuilds = <<>>
    /\ mut' = [mut EXCEPT ![m].pc = "patch"]
    /\ UNCHANGED builds
    /\ UNCHANGED notBuildVars

\* The final patchTags of the target build with the request body.
PatchTarget(m) ==
    /\ mut[m].pc = "patch"
    /\ builds' = PatchTags(builds, mut[m].buildId, mut[m].request)
    /\ mut' = [mut EXCEPT ![m].pc = "done"]
    /\ UNCHANGED notBuildVars

\* Any awaited API call may reject; mutationFn then throws at that await.
ApiCallFails(m) ==
    /\ mut[m].pc \in {"get", "list", "clear", "patch"}
    /\ mut[m].pc = "clear" => mut[m].currentBuilds # <<>>
    /\ mut' = [mut EXCEPT ![m].pc = "failed"]
    /\ UNCHANGED builds
    /\ UNCHANGED notBuildVars

\* The mutation object settles and can be used again.
Settle(m) ==
    /\ mut[m].pc \in {"done", "failed"}
    /\ mut' = [mut EXCEPT ![m] = Idle]
    /\ UNCHANGED builds
    /\ UNCHANGED notBuildVars

(***************************************************************************)
(* Part 2: the bulk capacity-reset script of the matchmaker                *)
(***************************************************************************)

\* Number of lobbies of the datacenter.
NumLobbies == 2

\* Largest generation counter a lobby starts with.
MaxGen == 1

\* Largest number of players in a lobby.
MaxOccupancy == 2

\* A score left in a ranking set by an earlier capacity computation.
StaleScore == 7

Lobbies == 1..NumLobbies

\* Lobbies are ranked per lobby group: lobbies 1 and 2 share group 1.
Group(l) == (l + 1) \div 2

\* The declared maxima of a lobby, as the decimal strings ARGV holds (a decimal
\* string is a sequence of digits): small lobbies of 1 (0 for parties) and
\* large ones of 10 (2 for parties).
DeclaredMax(l) ==
    IF l % 2 = 1 THEN [normal |-> <<1>>, party |-> <<0>>]
    ELSE [normal |-> <<1, 0>>, party |-> <<2>>]

\* Lua tonumber on a decimal string.
RECURSIVE tonumber(_)
tonumber(s) ==
    IF s = <<>> THEN 0 ELSE 10 * tonumber(SubSeq(s, 1, Len(s) - 1)) + s[Len(s)]

\* The decimal string of a natural number below 100.
tostring(n) == IF n < 10 THEN <<n>> ELSE <<n \div 10, n % 10>>

key_datacenter_closed == <<"datacenter_closed">>

key_lobby_config(l) == <<"lobby_config", l>>

key_lobby_player_ids(l) == <<"lobby_player_ids", l>>

key_lobby_available_spots(kind, l) == <<"lobby_available_spots", kind, Group(l)>>

ConfigKeys == {key_lobby_config(l) : l \in Lobbies}

ZsetKeys ==
    {key_lobby_player_ids(l) : l \in Lobbies}
    \cup {key_lobby_available_spots(kind, l) : kind \in {"normal", "party"}, l \in Lobbies}

lobby_id(l) == <<"lobby", l>>

\* Redis commands, as functions of the keyspace. A sorted set is a set of
\* <<member, score>> pairs with one pair per member.
SET(db, key, value) == [db EXCEPT !.str[key] = value]

HSET(db, key, field, value) == [db EXCEPT !.hash[key][field] = value]

ZCARD(db, key) == Cardinality(db.zset[key])

\* ZADD as it would be if it replaced the sorted set by the one member.
ZADDAlone(db, key, score, member) == [db EXCEPT !.zset[key] = {<<member, score>>}]

ZADD(db, key, score, member) ==
    [db EXCEPT !.zset[key] = {e \in @ : e[1] # member} \cup {<<member, score>>}]

\* The score of a member, as a set: empty when the sorted set does not hold it.
ZSCORE(db, key, member) ==
    {e[2] : e \in {x \in db.zset[key] : x[1] = member}}

\* The loop as it would be if every lobby's occupancy were read from the
\* first lobby's player set.
RECURSIVE ResetLoopFirstPlayers(_, _, _, _, _)
ResetLoopFirstPlayers(db, i, lobby_count, ARGV, KEYS) ==
    IF i > lobby_count THEN db
    ELSE LET real_i == i - 1
             db1 == HSET(db, KEYS[real_i * 4 + 2], "c", 0)
             player_count == ZCARD(db1, KEYS[3])
             db2 == ZADD(db1, KEYS[real_i * 4 + 4],
                         tonumber(ARGV[real_i * 3 + 3]) - player_count,
                         ARGV[real_i * 3 + 2])
             db3 == ZADD(db2, KEYS[real_i * 4 + 5],
                         tonumber(ARGV[real_i * 3 + 4]) - player_count,
                         ARGV[real_i * 3 + 2])
         IN ResetLoopFirstPlayers(db3, i + 1, lobby_count, ARGV, KEYS)

\* The body of the for loop, iterations i..lobby_count.
RECURSIVE ResetLoop(_, _, _, _, _)
ResetLoop(db, i, lobby_count, ARGV, KEYS) ==
    IF i > lobby_count THEN db
    ELSE LET real_i == i - 1
             id == ARGV[real_i * 3 + 2]
             max_players_normal == tonumber(ARGV[real_i * 3 + 3])
             max_players_party == tonumber(ARGV[real_i * 3 + 4])
             key_config == KEYS[real_i * 4 + 2]
             key_player_ids == KEYS[real_i * 4 + 3]
             key_available_spots_normal == KEYS[real_i * 4 + 4]
             key_available_spots_party == KEYS[real_i * 4 + 5]
             db1 == HSET(db, key_config, "c", 0)
             player_count == ZCARD(db1, key_player_ids)
             db2 == ZADD(db1, key_available_spots_normal,
                         max_players_normal - player_count, id)
             db3 == ZADD(db2, key_available_spots_party,
                         max_players_party - player_count, id)
         IN ResetLoop(db3, i + 1, lobby_count, ARGV, KEYS)

\* The script as it would be if its loop stopped one lobby short.
ResetScriptOneShort(db, ARGV, KEYS) ==
    ResetLoop(SET(db, KEYS[1], FALSE), 1, tonumber(ARGV[1]) - 1, ARGV, KEYS)

\* The whole script: it runs as one Redis command.
ResetScript(db, ARGV, KEYS) ==
    ResetLoop(SET(db, KEYS[1], FALSE), 1, tonumber(ARGV[1]), ARGV, KEYS)

\* The argument layout the script reads: the count, then three values per lobby.
RECURSIVE ResetARGVRest(_)
ResetARGVRest(ls) ==
    IF ls = <<>> THEN <<>>
    ELSE <<lobby_id(ls[1].lobby), ls[1].max.normal, ls[1].max.party>>
         \o ResetARGVRest(Tail(ls))

ResetARGV(ls) == <<tostring(Len(ls))>> \o ResetARGVRest(ls)

\* The key layout the script reads: the closed flag, then four keys per lobby.
RECURSIVE ResetKEYSRest(_)
ResetKEYSRest(ls) ==
    IF ls = <<>> THEN <<>>
    ELSE <<key_lobby_config(ls[1].lobby), key_lobby_player_ids(ls[1].lobby),
           key_lobby_available_spots("normal", ls[1].lobby),
           key_lobby_available_spots("party", ls[1].lobby)>>
         \o ResetKEYSRest(Tail(ls))

ResetKEYS(ls) == <<key_datacenter_closed>> \o ResetKEYSRest(ls)

\* The calls an administrator can make: any set of lobbies, in ascending order,
\* each with its declared maxima.
RECURSIVE LobbyLists(_)
LobbyLists(l) ==
    IF l > NumLobbies THEN {<<>>}
    ELSE LET rest == LobbyLists(l + 1)
         IN rest \cup {<<[lobby |-> l, max |-> DeclaredMax(l)]>> \o r : r \in rest}

\* EVAL of the script with the lobbies ls. call.tick counts the resets run; one
\* reset is followed.
BulkCapacityReset(ls) ==
    /\ call.tick = 0
    /\ redis' = ResetScript(redis, ResetARGV(ls), ResetKEYS(ls))
    /\ call' = [lobbies |-> ls, tick |-> call.tick + 1]
    /\ UNCHANGED <<snap, notResetVars>>

\* A matchmaker client reads the closed flag and one lobby's capacity data.
ReadCapacity(l) ==
    /\ snap' = <<[lobby |-> l,
                closed |-> redis.str[key_datacenter_closed],
                c |-> redis.hash[key_lobby_config(l)]["c"],
                normal |-> ZSCORE(redis, key_lobby_available_spots("normal", l), lobby_id(l)),
                party |-> ZSCORE(redis, key_lobby_available_spots("party", l), lobby_id(l)),
                player_count |-> ZCARD(redis, key_lobby_player_ids(l)),
                call |-> call]>>
    /\ snap' # snap
    /\ UNCHANGED <<redis, call, notResetVars>>

\* The ranking entries of the lobbies in `ranked`, all with the stale score.
StaleEntries(ranked, key) ==
    {<<lobby_id(l), StaleScore>> :
        l \in {x \in ranked : \E kind \in {"normal", "party"} :
                   key = key_lobby_available_spots(kind, x)}}

ResetStores ==
    {[str |-> [k \in {key_datacenter_closed} |-> closed],
      hash |-> [k \in ConfigKeys |-> [f \in {"c"} |-> gen[k[2]]]],
      zset |-> [k \in ZsetKeys |->
                  IF k[1] = "lobby_player_ids"
                  THEN {<<p, 0>> : p \in 1..occ[k[2]]}
                  ELSE StaleEntries(ranked, k)]] :
        closed \in BOOLEAN, gen \in [Lobbies -> 0..MaxGen],
        occ \in [Lobbies -> 0..MaxOccupancy], ranked \in {{}, Lobbies}}

ResetIdle ==
    /\ redis = CHOOSE db \in ResetStores : TRUE
    /\ call = [lobbies |-> <<>>, tick |-> 0]
    /\ snap = <<>>


NextReset ==
    \/ \E ls \in LobbyLists(1) : BulkCapacityReset(ls)
    \/ \E l \in Lobbies : ReadCapacity(l)

(***************************************************************************)
(* Part 3: get-or-create actor (PUT /actors)                               *)
(***************************************************************************)

\* Number of get-or-create calls followed.
MaxCalls == 3

Namespaces == {"default", "staging"}

LookupKeys == {"room-1", "room-2"}

Datacenters == {"atl", "fra"}

\* The round trips the endpoint documents, by name.
ResolveNamespace == "namespace::ops::resolve_for_name_global"

GetActor == "GET /actors/{}"

ForwardCreate == "POST /actors to remote datacenter"

CreateWorkflow == "[pegboard::workflows::actor] Create actor workflow"

\* The actor registered under a namespace and lookup key: a sequence of length
\* 0 or 1.
ExistingActorNeverFound(registry, ns, key) == <<>>

ExistingActor(registry, ns, key) == registry[<<ns, key>>]

\* Identifiers are allocated by the creation workflow and never reused.
AllocateId(registry) ==
    1 + Cardinality({k \in DOMAIN registry : registry[k] # <<>>})

\* Round trips when the actor exists.
ExistsTrips == <<ResolveNamespace, GetActor>>

\* Round trips when the actor is created in the current datacenter.
LocalCreateTrips == <<ResolveNamespace, CreateWorkflow>>

\* Round trips when the actor is created in a different datacenter.
RemoteCreateTripsResolvingTwice ==
    <<ResolveNamespace, ForwardCreate, ResolveNamespace, CreateWorkflow>>

RemoteCreateTrips == <<ResolveNamespace, ForwardCreate, CreateWorkflow>>

\* PUT /actors served by datacenter `here` for an actor to be placed in
\* datacenter `target`: the response and the round trips made.
GetOrCreateResult(registry, ns, key, here, target) ==
    LET found == ExistingActor(registry, ns, key)
    IN IF found # <<>>
       THEN [ns |-> ns, key |-> key, actor_id |-> found[1].actor_id, created |-> FALSE,
             here |-> here, datacenter |-> found[1].datacenter, trips |-> ExistsTrips]
       ELSE [ns |-> ns, key |-> key, actor_id |-> AllocateId(registry), created |-> TRUE,
             here |-> here, datacenter |-> target,
             trips |-> IF target = here THEN LocalCreateTrips ELSE RemoteCreateTrips]

ActorsGetOrCreate(ns, key, here, target) ==
    /\ Len(calls) < MaxCalls
    /\ LET r == GetOrCreateResult(actors, ns, key, here, target)
       IN /\ calls' = Append(calls, r)
          /\ actors' = IF r.created
                       THEN [actors EXCEPT ![<<ns, key>>] =
                               <<[actor_id |-> r.actor_id, datacenter |-> r.datacenter]>>]
                       ELSE actors
    /\ UNCHANGED notActorVars

ActorsIdle ==
    /\ actors = [k \in Namespaces \X LookupKeys |-> <<>>]
    /\ calls = <<>>

NextActors ==
    \E ns \in Namespaces, key \in LookupKeys, here \in Datacenters, target \in Datacenters :
        ActorsGetOrCreate(ns, key, here, target)

(***************************************************************************)
(* Part 4: updateVersion, the version-bump step of the release tool        *)
(***************************************************************************)

\* The files of the tree that the rules can reach, in the order glob lists them.
PathOrder ==
    <<"Cargo.toml",
      "frontend/packages/components/package.json",
      "frontend/packages/icons/package.json",
      "sdks/api/full/typescript/package.json",
      "sdks/api/fern/definition/api.yml",
      "site/src/content/docs/install.mdx">>

Paths == {PathOrder[i] : i \in 1..Len(PathOrder)}

\* opts.version, and the version the tree carries before the bump.
NewVersion == "2.0.0"

OldVersion == "1.0.0"

\* A file is a sequence of lines. A line is either plain text or one textual
\* mention of the version in the syntax one of the find patterns matches.
Text == [pat |-> "text", v |-> ""]

Mention(pat, version) == [pat |-> pat, v |-> version]

\* findReplace: the glob of each rule (as the paths it can match), the syntax
\* its find pattern matches, and whether the pattern carries the g flag.
findReplace ==
    <<[path |-> {"Cargo.toml"},
       find |-> "[workspace.package] version", global |-> FALSE],
      [path |-> {"frontend/packages/components/package.json",
                 "frontend/packages/icons/package.json"},
       find |-> "\"version\":", global |-> FALSE],
      [path |-> {"sdks/api/full/typescript/package.json"},
       find |-> "\"version\":", global |-> FALSE],
      [path |-> {"sdks/api/fern/definition/api.yml"},
       find |-> "X-API-Version default/values", global |-> FALSE],
      [path |-> {"site/src/content/docs/install.mdx"},
       find |-> "rivet-cli@", global |-> TRUE],
      [path |-> {"site/src/content/docs/install.mdx"},
       find |-> "RIVET_CLI_VERSION=", global |-> TRUE],
      [path |-> {"site/src/content/docs/install.mdx"},
       find |-> "$env:RIVET_CLI_VERSION =", global |-> TRUE]>>

\* glob(globPath, { cwd: opts.root }): the existing files the pattern matches.
RECURSIVE GlobFrom(_, _, _)
GlobFrom(tree, candidates, i) ==
    IF i > Len(PathOrder) THEN <<>>
    ELSE (IF PathOrder[i] \in candidates /\ tree[PathOrder[i]].exists
          THEN <<PathOrder[i]>> ELSE <<>>)
         \o GlobFrom(tree, candidates, i + 1)

glob(tree, rule) == GlobFrom(tree, rule.path, 1)

\* find.test(file)
test(rule, file) == \E i \in 1..Len(file) : file[i].pat = rule.find

\* file.replace(find, replace): every match with the g flag, the first without.
replace(rule, file) ==
    LET first == CHOOSE i \in 1..Len(file) :
                    file[i].pat = rule.find /\ \A j \in 1..(i - 1) : file[j].pat # rule.find
    IN [i \in 1..Len(file) |->
          IF file[i].pat = rule.find /\ (rule.global \/ i = first)
          THEN Mention(rule.find, NewVersion)
          ELSE file[i]]

\* Deno.readTextFile as it would be if the files were read once, before the loop.
readTextFileCached(tree, before, path) == before[path].lines

\* Deno.readTextFile(path)
readTextFile(tree, before, path) == tree[path].lines

\* updateVersion is called: the loop over findReplace starts at its first rule.
Running(rule) == [pc |-> "glob", rule |-> rule, paths |-> <<>>, log |-> <<>>]

\* The glob of the current rule matches files: the inner loop starts.
GlobRule ==
    /\ bump.pc = "glob"
    /\ bump.rule <= Len(findReplace)
    /\ glob(files, findReplace[bump.rule]) # <<>>
    /\ bump' = [bump EXCEPT !.pc = "file", !.paths = glob(files, findReplace[bump.rule])]
    /\ UNCHANGED <<files, orig, notBumpVars>>

\* assert(paths.length > 0) throws.
GlobMatchesNothing ==
    /\ bump.pc = "glob"
    /\ bump.rule <= Len(findReplace)
    /\ glob(files, findReplace[bump.rule]) = <<>>
    /\ bump' = [bump EXCEPT !.pc = "failed"]
    /\ UNCHANGED <<files, orig, notBumpVars>>

\* One iteration of the inner loop: read, test, replace, write, git add.
SubstituteFile ==
    /\ bump.pc = "file"
    /\ LET rule == findReplace[bump.rule]
           path == Head(bump.paths)
           file == readTextFile(files, orig, path)
       IN /\ test(rule, file)
          /\ files' = [files EXCEPT ![path].lines = replace(rule, file)]
          /\ bump' = [bump EXCEPT
                        !.log = @ \o <<[op |-> "write", path |-> path],
                                       [op |-> "git add", path |-> path]>>,
                        !.paths = Tail(@),
                        !.pc = IF Tail(bump.paths) = <<>> THEN "glob" ELSE "file",
                        !.rule = IF Tail(bump.paths) = <<>> THEN @ + 1 ELSE @]
    /\ UNCHANGED <<orig, notBumpVars>>

\* assert(find.test(file)) throws.
FileDoesNotMatch ==
    /\ bump.pc = "file"
    /\ ~test(findReplace[bump.rule], readTextFile(files, orig, Head(bump.paths)))
    /\ bump' = [bump EXCEPT !.pc = "failed"]
    /\ UNCHANGED <<files, orig, notBumpVars>>

\* The outer loop has run out of rules: updateVersion returns.
UpdateVersionReturns ==
    /\ bump.pc = "glob"
    /\ bump.rule > Len(findReplace)
    /\ bump' = [bump EXCEPT !.pc = "ok"]
    /\ UNCHANGED <<files, orig, notBumpVars>>

\* The lines of a file before the bump: "complete" holds every mention its
\* rules look for, "incomplete" lacks one of them.
FileBefore(path, state) ==
    CASE path = "Cargo.toml" ->
           IF state = "complete"
           THEN <<Text, Mention("[workspace.package] version", OldVersion), Text>>
           ELSE <<Text>>
      [] path = "sdks/api/fern/definition/api.yml" ->
           IF state = "complete"
           THEN <<Mention("X-API-Version default/values", OldVersion)>>
           ELSE <<Text, Text>>
      [] path = "site/src/content/docs/install.mdx" ->
           IF state = "complete"
           THEN <<Mention("rivet-cli@", OldVersion), Text,
                  Mention("RIVET_CLI_VERSION=", OldVersion),
                  Mention("$env:RIVET_CLI_VERSION =", OldVersion),
                  Mention("rivet-cli@", OldVersion)>>
           ELSE <<Mention("rivet-cli@", OldVersion),
                  Mention("$env:RIVET_CLI_VERSION =", OldVersion)>>
      [] OTHER ->
           IF state = "complete"
           THEN <<Text, Mention("\"version\":", OldVersion), Text,
                  Mention("\"version\":", OldVersion)>>
           ELSE <<Text>>

\* The fixture trees: each file is absent, complete or incomplete.
Trees ==
    {[p \in Paths |->
        [exists |-> state[p] # "absent",
         lines |-> IF state[p] = "absent" THEN <<>> ELSE FileBefore(p, state[p])]] :
        state \in [Paths -> {"absent", "complete", "incomplete"}]}

BumpIdle ==
    /\ files = [p \in Paths |-> [exists |-> FALSE, lines |-> <<>>]]
    /\ orig = files
    /\ bump = [pc |-> "idle", rule |-> 0, paths |-> <<>>, log |-> <<>>]

NextBump ==
    \/ GlobRule
    \/ GlobMatchesNothing
    \/ SubstituteFile
    \/ FileDoesNotMatch
    \/ UpdateVersionReturns

(***************************************************************************)
(* Part 5: safeStringify                                                   *)
(***************************************************************************)

\* Largest ceiling tried.
MaxCeiling == 14

\* Largest number of members of an array or object.
MaxMembers == 2

\* JSON values. Strings are sequences of characters. Every value has the same
\* fields: its type t, its number n, its characters s, its members e; a member
\* is a key (the property name, or the index of an array element) and a value.
JNull == [t |-> "null", n |-> 0, s |-> <<>>, e |-> <<>>]

JNumber(n) == [t |-> "number", n |-> n, s |-> <<>>, e |-> <<>>]

JString(s) == [t |-> "string", n |-> 0, s |-> s, e |-> <<>>]

JObject(members) == [t |-> "object", n |-> 0, s |-> <<>>, e |-> members]

\* The decimal digits of a natural number below 100, as characters.
Digit(d) == <<"0", "1", "2", "3", "4", "5", "6", "7", "8", "9">>[d + 1]

\* An array: the key of an element is its index, as a string.
JArray(values) ==
    [t |-> "array", n |-> 0, s |-> <<>>,
     e |-> [i \in 1..Len(values) |-> [k |-> <<Digit(i - 1)>>, v |-> values[i]]]]

NumberChars(n) == IF n < 10 THEN <<Digit(n)>> ELSE <<Digit(n \div 10), Digit(n % 10)>>

\* JSON's quoting of a string: a quote or a backslash gets a backslash before it.
RECURSIVE Escape(_)
Escape(s) ==
    IF s = <<>> THEN <<>>
    ELSE (IF s[1] \in {"\"", "\\"} THEN <<"\\", s[1]>> ELSE <<s[1]>>) \o Escape(Tail(s))

Quote(s) == <<"\"">> \o Escape(s) \o <<"\"">>

\* JSON.stringify(value) without a replacer.
RECURSIVE Stringify(_)
RECURSIVE StringifyMembers(_, _, _)
StringifyMembers(members, isObject, i) ==
    IF i > Len(members) THEN <<>>
    ELSE (IF i > 1 THEN <<",">> ELSE <<>>)
         \o (IF isObject THEN Quote(members[i].k) \o <<":">> ELSE <<>>)
         \o Stringify(members[i].v)
         \o StringifyMembers(members, isObject, i + 1)

Stringify(value) ==
    CASE value.t = "null" -> <<"n", "u", "l", "l">>
      [] value.t = "number" -> NumberChars(value.n)
      [] value.t = "string" -> Quote(value.s)
      [] value.t = "array" -> <<"[">> \o StringifyMembers(value.e, FALSE, 1) \o <<"]">>
      [] value.t = "object" -> <<"{">> \o StringifyMembers(value.e, TRUE, 1) \o <<"}">>

\* replacer(key, value) with the running total `size`: the value it returns, the
\* new total, and whether it threw.
replacer(key, value, size, ceiling) ==
    IF value.t = "null" THEN [ret |-> value, size |-> size, threw |-> FALSE]
    ELSE LET valueSize == IF value.t = "string" THEN Len(value.s)
                          ELSE Len(Stringify(value))
             total == size + Len(key) + valueSize
         IN [ret |-> value, size |-> total, threw |-> total > ceiling]

\* JSON.stringify(obj, replacer): the property `key` with value `value` is
\* passed to the replacer, then what the replacer returned is serialized, its
\* members in order, each passed to the replacer in its turn.
\* The result is the text, the running total and whether the replacer threw.
RECURSIVE StringifyProperty(_, _, _, _)
RECURSIVE StringifyProperties(_, _, _, _, _)
StringifyProperties(members, isObject, i, size, ceiling) ==
    IF i > Len(members) THEN [out |-> <<>>, size |-> size, threw |-> FALSE]
    ELSE LET first == StringifyProperty(members[i].k, members[i].v, size, ceiling)
         IN IF first.threw THEN first
            ELSE LET rest == StringifyProperties(members, isObject, i + 1, first.size, ceiling)
                 IN [out |-> (IF i > 1 THEN <<",">> ELSE <<>>)
                             \o (IF isObject THEN Quote(members[i].k) \o <<":">> ELSE <<>>)
                             \o first.out \o rest.out,
                     size |-> rest.size,
                     threw |-> rest.threw]

StringifyProperty(key, value, size, ceiling) ==
    LET r == replacer(key, value, size, ceiling)
    IN IF r.threw THEN [out |-> <<>>, size |-> r.size, threw |-> TRUE]
       ELSE IF r.ret.t \in {"array", "object"}
       THEN LET inner == StringifyProperties(r.ret.e, r.ret.t = "object", 1, r.size, ceiling)
                open == IF r.ret.t = "object" THEN "{" ELSE "["
                close == IF r.ret.t = "object" THEN "}" ELSE "]"
            IN [out |-> <<open>> \o inner.out \o <<close>>,
                size |-> inner.size, threw |-> inner.threw]
       ELSE [out |-> Stringify(r.ret), size |-> r.size, threw |-> FALSE]

\* safeStringify(obj, maxSize): the root is the property "" of a wrapper object.
safeStringify(value, ceiling) ==
    LET r == StringifyProperty(<<>>, value, 0, ceiling)
    IN [done |-> TRUE, threw |-> r.threw, out |-> IF r.threw THEN <<>> ELSE r.out]

\* The values tried: scalars, arrays and objects of scalars, and arrays and
\* objects holding one of those.
JScalars == {JNull, JNumber(7), JString(<<>>), JString(<<"a", "b">>), JString(<<"\"">>)}

PropertyNames == <<<<"k">>, <<"i", "d">>, <<"x", "y", "z">>>>

SeqsUpTo(S, n) == UNION {[1..k -> S] : k \in 0..n}

ContainersOf(S) ==
    {JArray(vs) : vs \in SeqsUpTo(S, MaxMembers)}
    \cup {JObject([i \in 1..Len(vs) |-> [k |-> PropertyNames[i], v |-> vs[i]]]) :
            vs \in SeqsUpTo(S, MaxMembers)}

JContainers == ContainersOf(JScalars)

JNested ==
    {JArray(<<c>>) : c \in JContainers}
    \cup {JObject(<<[k |-> <<"k">>, v |-> c]>>) : c \in JContainers}

JValues == JScalars \cup JContainers \cup JNested

NotCalled == [done |-> FALSE, threw |-> FALSE, out |-> <<>>]

\* One call of safeStringify(obj, maxSize).
SafeStringify ==
    /\ ~result.done
    /\ result' = safeStringify(obj, maxSize)
    /\ UNCHANGED <<obj, maxSize, notJsonVars>>

JsonIdle ==
    /\ obj = JNull
    /\ maxSize = 0
    /\ result = [done |-> TRUE, threw |-> FALSE, out |-> <<"n", "u", "l", "l">>]

NextJson == SafeStringify

(***************************************************************************)
(* Part 6: the release tool's entry point (scripts/release/main.ts)        *)
(***************************************************************************)

\* The lengths of a full and of a short commit hash.
FullCommitLength == 40

ShortCommitLength == 7

\* Strings are sequences of one-character strings.
Digits == {"0", "1", "2", "3", "4", "5", "6", "7", "8", "9"}

Letters == {"a", "b", "c", "r"}

\* args.version when --version was not given.
Undefined == <<"<undefined>">>

\* The index of the first c in s, 0 if there is none.
IndexOf(s, c) ==
    IF \E i \in 1..Len(s) : s[i] = c
    THEN CHOOSE i \in 1..Len(s) : s[i] = c /\ \A j \in 1..(i - 1) : s[j] # c
    ELSE 0

RECURSIVE Split(_, _)
\* s cut at every sep.
Split(s, sep) ==
    LET i == IndexOf(s, sep)
    IN IF i = 0 THEN <<s>>
       ELSE <<SubSeq(s, 1, i - 1)>> \o Split(SubSeq(s, i + 1, Len(s)), sep)

\* 0|[1-9]\d*
NumericIdentifier(s) ==
    \/ s = <<"0">>
    \/ Len(s) >= 1 /\ s[1] # "0" /\ \A i \in 1..Len(s) : s[i] \in Digits

\* [0-9a-zA-Z-]+
BuildIdentifier(s) ==
    Len(s) >= 1 /\ \A i \in 1..Len(s) : s[i] \in Digits \cup Letters \cup {"-"}

\* 0|[1-9]\d*|\d*[a-zA-Z-][0-9a-zA-Z-]*
PrereleaseIdentifier(s) ==
    \/ NumericIdentifier(s)
    \/ BuildIdentifier(s) /\ \E i \in 1..Len(s) : s[i] \notin Digits

\* The semantic-version pattern the version argument is tested against: three
\* numeric identifiers, then an optional -prerelease and an optional +build.
SemVer(s) ==
    LET plus == IndexOf(s, "+")
        main == IF plus = 0 THEN s ELSE SubSeq(s, 1, plus - 1)
        build == SubSeq(s, plus + 1, Len(s))
        dash == IndexOf(main, "-")
        core == IF dash = 0 THEN main ELSE SubSeq(main, 1, dash - 1)
        pre == SubSeq(main, dash + 1, Len(main))
        ids(t) == Split(t, ".")
    IN /\ Len(ids(core)) = 3
       /\ \A i \in 1..3 : NumericIdentifier(ids(core)[i])
       /\ dash # 0 => \A i \in 1..Len(ids(pre)) : PrereleaseIdentifier(ids(pre)[i])
       /\ plus # 0 => \A i \in 1..Len(ids(build)) : BuildIdentifier(ids(build)[i])

\* A hash of n hexadecimal digits (as numbers 0..15), different for each k.
Hash(n, k) == [i \in 1..n |-> (i * k) % 16]

\* commit.slice(0, 7) left out.
ShortCommitUntruncated(commit) == commit

\* if (opts.commit.length == 40) opts.commit = opts.commit.slice(0, 7)
ShortCommit(commit) ==
    IF Len(commit) = FullCommitLength THEN SubSeq(commit, 1, ShortCommitLength) ELSE commit

\* The steps, in the order of their if statements.
StepOrder ==
    <<"updateVersion", "generateFern", "gitCommit", "configureReleasePlease", "gitPush",
      "publishSdk", "tagDocker", "updateArtifacts">>

\* The batch flags with gitPush selected by setupCi as well as by setupLocal's
\* place in the order.
BatchOfPushInCi(step) ==
    CASE step \in {"updateVersion", "generateFern", "gitCommit", "configureReleasePlease"}
            -> "setupLocal"
      [] step \in {"gitPush", "publishSdk"} -> "setupCi"
      [] OTHER -> "completeCi"

\* The batch flag that selects a step besides the step's own flag.
BatchOf(step) ==
    CASE step \in {"updateVersion", "generateFern", "gitCommit", "configureReleasePlease",
                   "gitPush"} -> "setupLocal"
      [] step = "publishSdk" -> "setupCi"
      [] OTHER -> "completeCi"

\* The steps that assert !args.noValidateGit before they do anything.
AssertsValidation == {"gitCommit", "configureReleasePlease", "gitPush"}

\* The line a step prints before it runs.
Banner(step) == <<"==>", step>>

Flags ==
    {"noValidateGit", "setupLocal", "setupCi", "completeCi"} \cup
    {StepOrder[i] : i \in 1..Len(StepOrder)}

Selected(flags, step) == step \in flags \/ BatchOf(step) \in flags

\* The error swallowed: main goes on.
Exit1Swallowed(r, err) == r

\* main().catch: the error is printed and the process exits with code 1.
Exit1(r, err) == [r EXCEPT !.pc = "exited", !.stderr = Append(@, err), !.exitCode = 1]

\* What a call with opts adds to the trace of the invocation.
Called(r, step, ok) ==
    [r EXCEPT !.trace = Append(@, [step |-> step, ok |-> ok, commit |-> r.commit])]

\* assertExists(args.version) and the pattern test.
CheckVersion ==
    /\ rel.pc = "version"
    /\ rel' = IF rel.version = Undefined THEN Exit1(rel, "Value does not exist")
              ELSE IF ~SemVer(rel.version)
                   THEN Exit1(rel, "version must be a valid semantic version")
                   ELSE [rel EXCEPT !.pc = "commit"]
    /\ UNCHANGED notRelVars

\* commit = args.commit if that is a non-empty string, else the output of
\* git rev-parse HEAD.
ResolveCommit ==
    /\ rel.pc = "commit"
    /\ rel' = [rel EXCEPT !.pc = "length",
                          !.commit = IF rel.commitArg # <<>> THEN rel.commitArg ELSE rel.head]
    /\ UNCHANGED notRelVars

\* git rev-parse HEAD exits non-zero.
RevParseFails ==
    /\ rel.pc = "commit"
    /\ rel.commitArg = <<>>
    /\ rel' = Exit1(rel, "git rev-parse HEAD failed")
    /\ UNCHANGED notRelVars

\* The truncation of a full hash and the length assertion.
CheckCommitLength ==
    /\ rel.pc = "length"
    /\ LET short == ShortCommit(rel.commit)
       IN rel' = IF Len(short) # ShortCommitLength
                 THEN Exit1([rel EXCEPT !.commit = short], "must use 8 char short commit")
                 ELSE [rel EXCEPT !.pc = "validate", !.commit = short]
    /\ UNCHANGED notRelVars

\* if (!args.noValidateGit && !args.setupCi) await validateGit(opts)
ValidateGit(ok) ==
    /\ rel.pc = "validate"
    /\ "noValidateGit" \notin rel.flags /\ "setupCi" \notin rel.flags
    /\ rel' = IF ok THEN [Called(rel, "validateGit", TRUE) EXCEPT !.pc = "step", !.at = 1]
              ELSE Exit1(Called(rel, "validateGit", FALSE), "git validation failed")
    /\ UNCHANGED notRelVars

SkipValidateGit ==
    /\ rel.pc = "validate"
    /\ "noValidateGit" \in rel.flags \/ "setupCi" \in rel.flags
    /\ rel' = [rel EXCEPT !.pc = "step", !.at = 1]
    /\ UNCHANGED notRelVars

\* The if statement of the step at rel.at when the step is selected: its
\* assertion if it has one, its banner, its work, which succeeds or throws.
RunStep(ok) ==
    /\ rel.pc = "step" /\ rel.at <= Len(StepOrder)
    /\ LET step == StepOrder[rel.at]
           started == [rel EXCEPT !.stdout = Append(@, Banner(step))]
       IN /\ Selected(rel.flags, step)
          /\ rel' = IF step \in AssertsValidation /\ "noValidateGit" \in rel.flags
                    THEN Exit1(rel, "cannot run without git validation")
                    ELSE IF ok THEN [Called(started, step, TRUE) EXCEPT !.at = @ + 1]
                         ELSE Exit1(Called(started, step, FALSE), "step failed")
    /\ UNCHANGED notRelVars

\* The if statement of the step at rel.at when the step is not selected.
SkipStep ==
    /\ rel.pc = "step" /\ rel.at <= Len(StepOrder)
    /\ ~Selected(rel.flags, StepOrder[rel.at])
    /\ rel' = [rel EXCEPT !.at = @ + 1]
    /\ UNCHANGED notRelVars

\* console.log("==> Complete"); main resolves and the process exits with 0.
Complete ==
    /\ rel.pc = "step" /\ rel.at = Len(StepOrder) + 1
    /\ rel' = [rel EXCEPT !.pc = "exited", !.exitCode = 0,
                          !.stdout = Append(@, <<"==>", "Complete">>)]
    /\ UNCHANGED notRelVars

\* An invocation before main runs.
Invoked(version, commitArg, head, flags) ==
    [version |-> version, commitArg |-> commitArg, head |-> head, flags |-> flags,
     pc |-> "version", at |-> 0, commit |-> <<>>, trace |-> <<>>, stdout |-> <<>>,
     stderr |-> <<>>, exitCode |-> -1]

\* --version: absent, empty, 1.0.0, 1.0.0-rc.1+b, 01.0.0, 1.0
Versions ==
    {Undefined, <<>>, <<"1", ".", "0", ".", "0">>,
     <<"1", ".", "0", ".", "0", "-", "r", "c", ".", "1", "+", "b">>,
     <<"0", "1", ".", "0", ".", "0">>, <<"1", ".", "0">>}

\* --commit: absent, a short hash, a full hash, and hashes one off in length.
CommitArgs ==
    {<<>>, Hash(ShortCommitLength, 3), Hash(FullCommitLength, 5),
     Hash(ShortCommitLength + 1, 3), Hash(ShortCommitLength - 1, 3),
     Hash(FullCommitLength + 1, 5)}

\* The flag sets every version and commit argument is tried with.
SampleFlags ==
    {{}, {"setupLocal"}, {"setupCi"}, {"noValidateGit", "updateVersion"},
     {"setupLocal", "setupCi", "completeCi"}}

\* The invocations followed: every set of flags with a valid version and the
\* commit read from HEAD; every version and commit argument with the sample
\* flag sets.
Invocations ==
    {Invoked(<<"1", ".", "0", ".", "0">>, <<>>, Hash(FullCommitLength, 7), f) :
        f \in SUBSET Flags}
    \cup {Invoked(v, c, Hash(FullCommitLength, 7), f) :
            v \in Versions, c \in CommitArgs, f \in SampleFlags}

RelIdle == rel = [Invoked(Undefined, <<>>, <<>>, {}) EXCEPT !.pc = "exited", !.exitCode = 1,
                      !.stderr = <<"Value does not exist">>]

NextRelease ==
    \/ CheckVersion
    \/ ResolveCommit
    \/ RevParseFails
    \/ CheckCommitLength
    \/ \E ok \in BOOLEAN : ValidateGit(ok)
    \/ SkipValidateGit
    \/ \E ok \in BOOLEAN : RunStep(ok)
    \/ SkipStep
    \/ Complete

(***************************************************************************)
(* Part 7: publishing the SDK packages (scripts/release/sdk.ts)            *)
(***************************************************************************)

\* The package list of the release script as it publishes the actor packages
\* to NPM, building each first.
ActorPackages ==
    <<[name |-> "@rivet-gg/actor", npm |-> TRUE, jsr |-> FALSE, turbo |-> TRUE],
      [name |-> "@rivet-gg/actor-client", npm |-> TRUE, jsr |-> FALSE, turbo |-> TRUE],
      [name |-> "@rivet-gg/actor-core", npm |-> TRUE, jsr |-> FALSE, turbo |-> TRUE]>>

\* The package list of the release script as it publishes the API packages to
\* NPM and the actor packages to JSR.
ApiAndActorPackages ==
    <<[name |-> "@rivet-gg/api", npm |-> TRUE, jsr |-> FALSE, turbo |-> FALSE],
      [name |-> "@rivet-gg/api-full", npm |-> TRUE, jsr |-> FALSE, turbo |-> FALSE],
      [name |-> "@rivet-gg/actor", npm |-> FALSE, jsr |-> TRUE, turbo |-> FALSE],
      [name |-> "@rivet-gg/actor-client", npm |-> FALSE, jsr |-> TRUE, turbo |-> FALSE],
      [name |-> "@rivet-gg/actor-core", npm |-> FALSE, jsr |-> TRUE, turbo |-> FALSE]>>

SdkVersion == "1.0.0"

\* Texts are sequences of words. The text a failed lookup must include.
NpmNotFound(version) == <<"No", "match", "found", "for", "version", version>>

JsrNotFound(packageName, version) ==
    <<"Could", "not", "find", "version", "of", packageName, "that", "matches", "specified",
      "version", "constraint", version>>

\* assertStringIncludes(actual, expected): does actual contain expected?
StringIncludes(actual, expected) ==
    \E i \in 1..(Len(actual) - Len(expected) + 1) :
        SubSeq(actual, i, i + Len(expected) - 1) = expected

\* What the registry lookup of a package can end with: its exit code and
\* what it wrote to stderr.
LookupResults(pkg) ==
    {[code |-> 0, stderr |-> <<>>],
     [code |-> 1, stderr |-> <<"npm", "error", "code", "E404">> \o NpmNotFound(SdkVersion)],
     [code |-> 1, stderr |-> <<"error:">> \o JsrNotFound(pkg.name, SdkVersion)],
     [code |-> 1, stderr |-> <<"request", "failed,", "reason:", "ECONNREFUSED">>],
     [code |-> 1, stderr |-> <<>>]}

\* The not-found text of the registry pkg is looked up in.
NotFoundText(pkg, version) ==
    IF pkg.npm THEN NpmNotFound(version) ELSE JsrNotFound(pkg.name, version)

\* npmVersionExists / jsrVersionExists with the not-found text never required.
VersionExistsLenient(pkg, version, check) ==
    IF check.code = 0 THEN "exists" ELSE "absent"

\* npmVersionExists / jsrVersionExists: true, false, or the assertion throws.
VersionExists(pkg, version, check) ==
    IF check.code = 0 THEN "exists"
    ELSE IF StringIncludes(check.stderr, NotFoundText(pkg, version)) THEN "absent"
         ELSE "throws"

\* One run of publishSdk over a package list, before its loop starts.
Publishing(packages, retries) ==
    [packages |-> packages, retries |-> retries, at |-> 1,
     pc |-> IF Len(packages) = 0 THEN "returned" ELSE "build",
     published |-> {}, log |-> <<>>]

NoCheck == [code |-> 0, stderr |-> <<>>]

\* A command of the run, with the package and version it was given, how it
\* ended and, for a lookup, what the registry client exited with.
Logged(s, cmd, outcome, check) ==
    [s EXCEPT !.log = Append(@, [cmd |-> cmd, name |-> s.packages[s.at].name,
                                  version |-> SdkVersion, outcome |-> outcome,
                                  check |-> check])]

\* The end of the loop body for the package at s.at.
NextPackage(s) ==
    IF s.at = Len(s.packages) THEN [s EXCEPT !.pc = "returned"]
    ELSE [s EXCEPT !.at = @ + 1, !.pc = "build"]

\* if (pkg.turbo) await $`yarn build --filter ${pkg.name}`
BuildPackage(ok) ==
    /\ sdk.pc = "build"
    /\ sdk' = IF ~sdk.packages[sdk.at].turbo THEN [sdk EXCEPT !.pc = "lookup"]
              ELSE IF ok THEN [Logged(sdk, "build", "ok", NoCheck) EXCEPT !.pc = "lookup"]
                   ELSE [Logged(sdk, "build", "failed", NoCheck) EXCEPT !.pc = "threw"]
    /\ UNCHANGED notSdkVars

\* The existence check and the branch on its result.
CheckVersionExists(check) ==
    /\ sdk.pc = "lookup"
    /\ LET pkg == sdk.packages[sdk.at]
           versionExists == IF pkg.npm \/ pkg.jsr
                            THEN VersionExists(pkg, SdkVersion, check) ELSE "absent"
           looked == Logged(sdk, "lookup", versionExists, check)
       IN sdk' = CASE versionExists = "exists" -> NextPackage(looked)
                   [] versionExists = "absent" -> [looked EXCEPT !.pc = "publish"]
                   [] OTHER -> [looked EXCEPT !.pc = "threw"]
    /\ UNCHANGED notSdkVars

\* A catch block that runs whether or not the try block threw.
CatchAlways(ok) == TRUE

\* try { ... } catch { ... }: the catch block runs when the try block threw.
Catch(ok) == ~ok

\* The publish commands for the package at sdk.at. A package is in the
\* registry once a publish command for it succeeded. With retries, the
\* version-aware publish command is tried and, when it throws, the plain one;
\* without, the version is set first and then published.
PublishPackage(first, second) ==
    /\ sdk.pc = "publish"
    /\ LET pkg == sdk.packages[sdk.at]
           outcome(ok) == IF ok THEN "ok" ELSE "failed"
           versionAware == Logged(sdk, "publish --new-version", outcome(first), NoCheck)
           plain == Logged(versionAware, "publish --access public", outcome(second), NoCheck)
           one == Logged(sdk, "set version", outcome(first), NoCheck)
           two == Logged(one, "publish", outcome(second), NoCheck)
           done(s) == NextPackage([s EXCEPT !.published = @ \cup {pkg.name}])
           failed(s) == [s EXCEPT !.pc = "threw"]
       IN sdk' = IF pkg.npm /\ sdk.retries
                 THEN IF ~Catch(first) THEN done(versionAware)
                      ELSE IF second THEN done(plain) ELSE failed(plain)
                 ELSE IF ~first THEN failed(one) ELSE IF second THEN done(two) ELSE failed(two)
    /\ UNCHANGED notSdkVars

SdkIdle == sdk = Publishing(<<>>, FALSE)

NextSdk ==
    \/ \E ok \in BOOLEAN : BuildPackage(ok)
    \/ \E pkg \in {sdk.packages[i] : i \in 1..Len(sdk.packages)} :
          \E check \in LookupResults(pkg) : CheckVersionExists(check)
    \/ \E first, second \in BOOLEAN : PublishPackage(first, second)

(***************************************************************************)
(* Part 8: the dashboard's retry rule for failing queries                  *)
(***************************************************************************)

\* The failure count from which a query is not retried any more.
MaxFailureCount == 3

\* The errors a fetch can reject with: no error object, an Error without a
\* statusCode property, and API errors carrying an HTTP status.
QueryErrors ==
    {[kind |-> "none", statusCode |-> 0], [kind |-> "plain", statusCode |-> 0],
     [kind |-> "http", statusCode |-> 403], [kind |-> "http", statusCode |-> 404],
     [kind |-> "http", statusCode |-> 500]}

\* The rule without its test for status 403.
shouldRetryAll(failureCount, error) == failureCount < MaxFailureCount

shouldRetryAllExpect403(failureCount, error) ==
    IF error.kind = "http" /\ error.statusCode = 403 THEN FALSE
    ELSE IF failureCount >= MaxFailureCount THEN FALSE
         ELSE TRUE

\* A query that is being fetched for the first time.
Fetching == [status |-> "pending", failureCount |-> 0, failures |-> <<>>, retries |-> 0]

\* A fetch attempt rejects with error: the query client asks the rule with the
\* number of failures before this one, and either counts the failure and
\* fetches again or surfaces the error.
FetchFails(error) ==
    /\ query.status = "pending"
    /\ query' = IF shouldRetryAllExpect403(query.failureCount, error)
                THEN [query EXCEPT !.failureCount = @ + 1, !.retries = @ + 1,
                                   !.failures = Append(@, error)]
                ELSE [query EXCEPT !.status = "error", !.failures = Append(@, error)]
    /\ UNCHANGED notQueryVars

\* A fetch attempt resolves.
FetchSucceeds ==
    /\ query.status = "pending"
    /\ query' = [query EXCEPT !.status = "success"]
    /\ UNCHANGED notQueryVars

QueryIdle == query = [Fetching EXCEPT !.status = "success"]

NextQuery ==
    \/ \E error \in QueryErrors : FetchFails(error)
    \/ FetchSucceeds

(***************************************************************************)
(* Part 9: cache invalidation after destroying an actor                    *)
(***************************************************************************)

Projects == {"p1", "p2"}

Environments == {"prod", "dev"}

ActorIds == {"actor-1", "actor-2"}

Placeholder == "<placeholder>"

\* projectActorsQueryOptions(...).queryKey
projectActorsQueryKey(projectNameId, environmentNameId) ==
    <<"project", projectNameId, "environment", environmentNameId, "actors">>

\* actorQueryOptions(...).queryKey
actorQueryKey(projectNameId, environmentNameId, actorId) ==
    <<"project", projectNameId, "environment", environmentNameId, "actor", actorId>>

\* The parameters an actor-list query appends to its key.
ListParameters == {<<>>, <<"tags=a">>, <<"tags=a", "cursor=9">>}

\* array[i] of JavaScript, counting from 1: undefined past the end.
At(key, i) == IF i \in 1..Len(key) THEN key[i] ELSE "<undefined>"

\* The predicate passed to invalidateQueries for the actor lists: every
\* element of the query's key equals the template's element at its position,
\* or the template has the placeholder there.
MatchesTemplate(queryKey, template) ==
    \A i \in 1..Len(queryKey) :
        At(template, i) = queryKey[i] \/ At(template, i) = Placeholder

\* invalidateQueries({ queryKey }): the cached keys that start with queryKey.
MatchesKey(queryKey, filter) ==
    Len(queryKey) >= Len(filter) /\ SubSeq(queryKey, 1, Len(filter)) = filter

\* The keys a dashboard session may have cached.
CacheKeys ==
    {projectActorsQueryKey(p, e) \o extra :
        p \in Projects, e \in {"prod"}, extra \in ListParameters}
    \cup {actorQueryKey("p1", "prod", a) : a \in ActorIds}
    \cup {<<"project", "p1", "environment", "prod", "builds">>, <<"project", "p1">>}

\* invalidateQueries: the cached queries among matching become stale.
Invalidate(entries, matching) ==
    [k \in DOMAIN entries |-> entries[k] \/ k \in matching]

\* mutationFn: the destroy request is sent.
DestroyActor(projectNameId, environmentNameId, actorId) ==
    /\ cache.pc = "idle"
    /\ cache' = [cache EXCEPT !.pc = "destroying",
                              !.opts = <<projectNameId, environmentNameId, actorId>>]
    /\ UNCHANGED notCacheVars

\* The request is rejected: onSuccess does not run.
DestroyFails ==
    /\ cache.pc = "destroying"
    /\ cache' = [cache EXCEPT !.pc = "failed"]
    /\ UNCHANGED notCacheVars

\* onSuccess, first invalidation: the destroyed actor's query.
InvalidateActor ==
    /\ cache.pc = "destroying"
    /\ LET filter == actorQueryKey(cache.opts[1], cache.opts[2], cache.opts[3])
           matching == {k \in DOMAIN cache.stale : MatchesKey(k, filter)}
       IN cache' = [cache EXCEPT !.pc = "invalidating",
                                 !.stale = Invalidate(cache.stale, matching)]
    /\ UNCHANGED notCacheVars

\* onSuccess, second invalidation: the predicate against the template key.
InvalidateActorLists ==
    /\ cache.pc = "invalidating"
    /\ LET template == projectActorsQueryKey(Placeholder, Placeholder)
           matching == {k \in DOMAIN cache.stale : MatchesTemplate(k, template)}
       IN cache' = [cache EXCEPT !.pc = "settled",
                                 !.stale = Invalidate(cache.stale, matching)]
    /\ UNCHANGED notCacheVars

\* A session with the queries of keys cached and fresh.
Cached(keys) ==
    [pc |-> "idle", opts |-> <<"", "", "">>, stale |-> [k \in keys |-> FALSE]]

CacheIdle == cache = Cached({})

NextCache ==
    \/ \E p \in Projects, e \in Environments, a \in ActorIds : DestroyActor(p, e, a)
    \/ DestroyFails
    \/ InvalidateActor
    \/ InvalidateActorLists

(***************************************************************************)
(* Part 10: the SDK generation script (scripts/fern/gen.sh)                *)
(***************************************************************************)

\* The commands of the background job that installs and packs the TypeScript
\* SDK, joined by &&.
PackCommands == <<"yarn install", "yarn pack">>

\* The commands of the background job that generates the OpenAPI spec and
\* then runs gen_rust.sh, whose commands run under set -e.
ClientCommands ==
    <<"gen_spec_compat.sh", "rm sdks/rust", "rm sdks/rust-cli", "docker run openapi-generator",
      "sed cloud_games_matchmaker_api.rs", "sed portal_notifications_api.rs",
      "cp sdks/rust sdks/rust-cli", "sed Cargo.toml", "find cloud_version_*.rs">>

NotStarted == [at |-> 0, status |-> "none"]

\* One command of a background job finishes: the job goes on to its next
\* command, ends successfully after its last, or ends with the failure.
JobStep(job, commands, ok) ==
    IF ~ok THEN [job EXCEPT !.status = "failed"]
    ELSE IF job.at = Len(commands) THEN [job EXCEPT !.status = "ok"]
         ELSE [job EXCEPT !.at = @ + 1]

\* The script stops with a status; its background jobs are left as they are.
ScriptExits(f, status) == [f EXCEPT !.pc = "exited", !.exit = status]

\* A foreground command fails under set -e.
ForegroundFails(f, command) == ScriptExits([f EXCEPT !.failed = @ \cup {command}], 1)

\* if [ -z "$FERN_REPO_PATH" ]; then ... exit 1
CheckFernRepoPath ==
    /\ fern.pc = "repo"
    /\ fern' = IF fern.repoPath THEN [fern EXCEPT !.pc = "image"] ELSE ScriptExits(fern, 1)
    /\ UNCHANGED notFernVars

\* The generator image is built when docker images does not list it.
EnsureGeneratorImage(ok) ==
    /\ fern.pc = "image"
    /\ fern' = IF fern.image \/ ok THEN [fern EXCEPT !.pc = "generate", !.image = TRUE]
               ELSE ForegroundFails(fern, "dockerTagVersion")
    /\ UNCHANGED notFernVars

\* node .../cli.cjs generate --local --group $FERN_GROUP; an unset FERN_GROUP
\* stops the script under set -u.
GenerateFernLibraries(ok) ==
    /\ fern.pc = "generate"
    /\ fern' = IF fern.group /\ ok THEN [fern EXCEPT !.pc = "deps"]
               ELSE ForegroundFails(fern, "fern generate")
    /\ UNCHANGED notFernVars

\* The jq edit of package.json.
AddMissingDeps(ok) ==
    /\ fern.pc = "deps"
    /\ fern' = IF ok THEN [fern EXCEPT !.pc = "spawn"] ELSE ForegroundFails(fern, "add deps")
    /\ UNCHANGED notFernVars

\* ( ... ) &  ( ... ) &
StartBackgroundJobs ==
    /\ fern.pc = "spawn"
    /\ fern' = [fern EXCEPT !.pc = "wait", !.pack = [at |-> 1, status |-> "running"],
                            !.clients = [at |-> 1, status |-> "running"]]
    /\ UNCHANGED notFernVars

PackJobStep(ok) ==
    /\ fern.pack.status = "running"
    /\ fern' = [fern EXCEPT !.pack = JobStep(@, PackCommands, ok),
                            !.failed = IF ok THEN @ ELSE @ \cup {PackCommands[fern.pack.at]}]
    /\ UNCHANGED notFernVars

ClientsJobStep(ok) ==
    /\ fern.clients.status = "running"
    /\ fern' = [fern EXCEPT !.clients = JobStep(@, ClientCommands, ok),
                            !.failed = IF ok THEN @ ELSE @ \cup {ClientCommands[fern.clients.at]}]
    /\ UNCHANGED notFernVars

\* wait without operands returns once every background job has ended, with
\* status 0; it is the script's last command.
WaitReturns ==
    /\ fern.pc = "wait"
    /\ fern.pack.status \in {"ok", "failed"} /\ fern.clients.status \in {"ok", "failed"}
    /\ fern' = ScriptExits(fern, 0)
    /\ UNCHANGED notFernVars

\* A run of the script in an environment, before its first command.
GenSh(repoPath, group, image) ==
    [repoPath |-> repoPath, group |-> group, image |-> image, pc |-> "repo",
     pack |-> NotStarted, clients |-> NotStarted, failed |-> {}, exit |-> -1]

FernIdle == fern = ScriptExits(GenSh(FALSE, FALSE, FALSE), 1)

NextFern ==
    \/ CheckFernRepoPath
    \/ \E ok \in BOOLEAN : EnsureGeneratorImage(ok)
    \/ \E ok \in BOOLEAN : GenerateFernLibraries(ok)
    \/ \E ok \in BOOLEAN : AddMissingDeps(ok)
    \/ StartBackgroundJobs
    \/ \E ok \in BOOLEAN : PackJobStep(ok)
    \/ \E ok \in BOOLEAN : ClientsJobStep(ok)
    \/ WaitReturns

(***************************************************************************)
(* Part 11: the node bootstrap script (rivet_fetch_info.sh)                *)
(***************************************************************************)

\* The fields read from the response, in the order they are read, and the
\* placeholder each is substituted for.
InfoFields == <<"name", "server_id", "datacenter_id", "cluster_id", "vlan_ip">>

PlaceholderOf ==
    <<"__NODE_NAME__", "__SERVER_ID__", "__DATACENTER_ID__", "__CLUSTER_ID__", "__VLAN_IP__">>

\* The bodies the provisioning API can answer with: the registration record,
\* whole or lacking fields, as the set of fields it has.
InfoResponses ==
    {{InfoFields[i] : i \in 1..Len(InfoFields)},
     {"name", "server_id", "datacenter_id", "cluster_id"},
     {"server_id"}, {}}

\* The script leaves the shell's options as the installer that embeds it has
\* set them: commands failing may or may not end it.
ShellOptions == [errexit : BOOLEAN, pipefail : BOOLEAN]

\* The value registered for a field.
Registered(field) == <<"value of", field>>

\* echo $response | jq -r '.field': the field's value, null when the body
\* lacks the field, nothing when the body is empty.
jq(response, field) ==
    IF ~response.ok THEN <<>>
    ELSE IF field \in response.fields THEN Registered(field) ELSE <<"null">>

\* A command failed: the shell goes on unless errexit ends it.
CommandFailed(b, command, fatal, next) ==
    LET noted == [b EXCEPT !.failed = @ \cup {command}]
    IN IF fatal THEN [noted EXCEPT !.pc = "aborted"] ELSE [noted EXCEPT !.pc = next]

\* PUBLIC_IP=$(ip -4 route get 1.0.0.0 | awk '{print $7; exit}'): the status of
\* the pipeline is awk's unless pipefail is set.
DeterminePublicIp(ok) ==
    /\ boot.pc = "ip"
    /\ boot' = IF ok THEN [boot EXCEPT !.pc = "curl", !.publicIp = <<"203.0.113.7">>]
               ELSE CommandFailed(boot, <<"ip">>, boot.options.errexit /\ boot.options.pipefail,
                                  "curl")
    /\ UNCHANGED notBootVars

\* response=$(curl -f ...): a failed request leaves response empty. A request
\* for an empty address never succeeds.
FetchInfo(ok, fields) ==
    /\ boot.pc = "curl"
    /\ ok => boot.publicIp # <<>>
    /\ boot' = IF ok THEN [boot EXCEPT !.pc = "jq", !.at = 1,
                                       !.response = [ok |-> TRUE, fields |-> fields]]
               ELSE CommandFailed([boot EXCEPT !.at = 1], <<"curl">>, boot.options.errexit, "jq")
    /\ UNCHANGED notBootVars

\* field=$(echo $response | jq -r '.field') for the field at boot.at.
ReadField ==
    /\ boot.pc = "jq"
    /\ LET field == InfoFields[boot.at]
       IN boot' = [boot EXCEPT !.values[field] = jq(boot.response, field),
                               !.pc = IF boot.at = Len(InfoFields) THEN "sed" ELSE "jq",
                               !.at = IF boot.at = Len(InfoFields) THEN 1 ELSE @ + 1]
    /\ UNCHANGED notBootVars

\* sed -i "s/__PLACEHOLDER__/$field/g" $initialize_script for the field at
\* boot.at: the placeholder's occurrences become the value, or sed fails and
\* the file stays as it is.
SubstituteField(ok) ==
    /\ boot.pc = "sed"
    /\ LET field == InfoFields[boot.at]
           next == IF boot.at = Len(InfoFields) THEN "run" ELSE "sed"
           moved == [boot EXCEPT !.at = IF boot.at = Len(InfoFields) THEN @ ELSE @ + 1]
       IN boot' = IF ok THEN [moved EXCEPT !.pc = next,
                                           !.script[PlaceholderOf[boot.at]] = boot.values[field]]
                  ELSE CommandFailed(moved, <<"sed", field>>, boot.options.errexit, next)
    /\ UNCHANGED notBootVars

\* "$initialize_script"
RunInitializeScript ==
    /\ boot.pc = "run"
    /\ boot' = [boot EXCEPT !.pc = "done", !.ran = TRUE]
    /\ UNCHANGED notBootVars

\* A node about to run the script: the template still has its placeholders.
Booting(options) ==
    [options |-> options, pc |-> "ip", at |-> 0, publicIp |-> <<>>,
     response |-> [ok |-> FALSE, fields |-> {}],
     values |-> [f \in {InfoFields[i] : i \in 1..Len(InfoFields)} |-> <<>>],
     script |-> [p \in {PlaceholderOf[i] : i \in 1..Len(PlaceholderOf)} |-> <<p>>],
     failed |-> {}, ran |-> FALSE]

BootIdle == boot = [Booting([errexit |-> TRUE, pipefail |-> TRUE]) EXCEPT !.pc = "aborted"]

NextBoot ==
    \/ \E ok \in BOOLEAN : DeterminePublicIp(ok)
    \/ \E ok \in BOOLEAN, fields \in InfoResponses : FetchInfo(ok, fields)
    \/ ReadField
    \/ \E ok \in BOOLEAN : SubstituteField(ok)
    \/ RunInitializeScript

(***************************************************************************)
(* Part 12: a reader of the builds next to the patch-build-tags mutation   *)
(***************************************************************************)

\* rivetClient.builds.list for the builds of a name group, as another
\* dashboard session or API client calls it: what it returns, and whether a
\* set-current run on a build of that group was in flight at that moment.
ReadGroup(name) ==
    /\ seen' = <<[name |-> name,
                  current |-> {b \in BuildIds : builds[b].name = name
                                                  /\ builds[b].current = "true"},
                  inFlight |-> {m \in MutIds : /\ InFlight(m)
                                               /\ mut[m].request.current = "true"
                                               /\ builds[mut[m].buildId].name = name}]>>
    /\ seen' # seen
    /\ UNCHANGED <<buildVars, resetVars, actorVars, bumpVars, jsonVars, toolVars>>

ReaderIdle == seen = <<>>

(***************************************************************************)
(* Part 13: ActorStateTab                                                  *)
(***************************************************************************)

\* undefined, as the value of state.json before the worker has sent a state.
JUndefined == [t |-> "undefined", n |-> 0, s |-> <<>>, e |-> <<>>]

ErrorKey == <<"_", "e", "r", "r", "o", "r">>

CodeKey == <<"c", "o", "d", "e">>

StateTooLarge == <<"s", "t", "a", "t", "e", "_", "t", "o", "o", "_", "l", "a", "r", "g", "e">>

\* A value used where JavaScript wants a condition.
JsTruthy(value) ==
    CASE value.t \in {"undefined", "null"} -> FALSE
      [] value.t = "number" -> value.n # 0
      [] value.t = "string" -> value.s # <<>>
      [] OTHER -> TRUE

\* typeof value === "object": objects, arrays and null.
TypeofObject(value) == value.t \in {"object", "array", "null"}

\* key in value, for an object or an array.
HasProperty(value, key) == \E i \in 1..Len(value.e) : value.e[i].k = key

\* value[key]: the last member of that name, undefined if there is none.
Property(value, key) ==
    IF HasProperty(value, key)
    THEN LET i == CHOOSE j \in 1..Len(value.e) :
                     /\ value.e[j].k = key
                     /\ \A l \in (j + 1)..Len(value.e) : value.e[l].k # key
         IN value.e[i].v
    ELSE JUndefined

\* The optional prop: not passed, or a boolean.
DisabledProps == {<<>>, <<TRUE>>, <<FALSE>>}

\* status.type of the worker. Only "error", "unsupported" and "ready" are
\* named by the component; the other two stand for every other type.
StatusTypes == {"error", "unsupported", "ready", "pending", "unknown"}

\* The views the component can return.
Views == {"inactive", "unavailable", "unsupported", "loading", "enable state",
          "too large", "editable state"}

\* The component with the status test ahead of the disabled test.
ActorStateTabStatusFirst(disabled, status, state) ==
    IF status = "error" THEN "unavailable"
    ELSE IF disabled = <<TRUE>> THEN "inactive"
    ELSE IF status = "unsupported" THEN "unsupported"
    ELSE IF status # "ready" THEN "loading"
    ELSE IF ~state.enabled THEN "enable state"
    ELSE "editable state"

\* ActorStateTab({ disabled }) with the values its two hooks return: the view
\* it returns.
ActorStateTab(disabled, status, state) ==
    IF disabled = <<TRUE>> THEN "inactive"
    ELSE IF status = "error" THEN "unavailable"
    ELSE IF status = "unsupported" THEN "unsupported"
    ELSE IF status # "ready" THEN "loading"
    ELSE IF ~state.enabled /\ status = "ready" THEN "enable state"
    ELSE IF /\ JsTruthy(state.json)
            /\ TypeofObject(state.json)
            /\ HasProperty(state.json, ErrorKey)
            /\ LET error == Property(state.json, ErrorKey)
               IN /\ JsTruthy(error)
                  /\ TypeofObject(error)
                  /\ HasProperty(error, CodeKey)
                  /\ Property(error, CodeKey) = JString(StateTooLarge)
         THEN "too large"
    ELSE "editable state"

\* The component is rendered for the first time.
MountStateTab ==
    /\ tab.view = <<>>
    /\ tab' = [tab EXCEPT !.view = <<ActorStateTab(tab.disabled, tab.status, tab.state)>>]
    /\ UNCHANGED notTabVars

\* useActorWorkerStatus returns a new status: the component renders again.
WorkerStatusChanges(status) ==
    /\ tab.view # <<>>
    /\ status # tab.status
    /\ tab' = [tab EXCEPT !.status = status,
                          !.view = <<ActorStateTab(tab.disabled, status, tab.state)>>]
    /\ UNCHANGED notTabVars

\* useActorState returns a new state: the component renders again.
ActorStateChanges(state) ==
    /\ tab.view # <<>>
    /\ state # tab.state
    /\ tab' = [tab EXCEPT !.state = state,
                          !.view = <<ActorStateTab(tab.disabled, tab.status, state)>>]
    /\ UNCHANGED notTabVars

\* The payloads state.json is tried with.
StateJsons ==
    LET tooLarge == JObject(<<[k |-> CodeKey, v |-> JString(StateTooLarge)]>>)
        other == JObject(<<[k |-> CodeKey, v |-> JString(<<"x">>)]>>)
        error(value) == JObject(<<[k |-> ErrorKey, v |-> value]>>)
    IN {JUndefined, JNull, JNumber(0), JString(StateTooLarge),
        JObject(<<>>), JArray(<<JString(StateTooLarge)>>),
        JObject(<<[k |-> CodeKey, v |-> JString(StateTooLarge)]>>),
        error(JNull), error(JString(StateTooLarge)), error(JObject(<<>>)),
        error(JArray(<<JString(StateTooLarge)>>)),
        error(other), error(tooLarge),
        JObject(<<[k |-> <<"n">>, v |-> JNumber(1)], [k |-> ErrorKey, v |-> tooLarge]>>)}

ActorStates == [enabled : BOOLEAN, json : StateJsons]

TabIdle == tab = [disabled |-> <<TRUE>>, status |-> "unknown",
                  state |-> [enabled |-> FALSE, json |-> JUndefined],
                  view |-> <<"inactive">>]

NextTab ==
    \/ MountStateTab
    \/ \E status \in StatusTypes : WorkerStatusChanges(status)
    \/ \E state \in ActorStates : ActorStateChanges(state)

(***************************************************************************)
(* Part 14: the example workload's start script                            *)
(***************************************************************************)

\* A variable the environment does not define.
Unset == "<unset>"

\* Values of RIVET_API_ENDPOINT and RIVET_TOKEN: not defined, empty, or one of
\* two values.
Endpoints == {Unset, "", "https://api.a", "https://api.b"}

Tokens == {Unset, "", "token-1", "token-2"}

\* What the server answers to a request: an HTTP status, or 0 when no
\* connection could be made.
HttpStatuses == {0, 200, 302, 401, 500}

\* curl's exit status without --fail: an HTTP error status is not an error.
CurlExitWithoutFail(status) == IF status = 0 THEN 7 ELSE 0

\* curl's exit status with --fail: 7 when it could not connect, 22 on an HTTP
\* status of 400 or more, 0 otherwise.
CurlExit(status) ==
    IF status = 0 THEN 7
    ELSE IF status >= 400 THEN 22
    ELSE 0

\* A run of the script in an environment: nothing executed yet.
StartScript(endpoint, token, resolvConf) ==
    [env |-> [RIVET_API_ENDPOINT |-> endpoint, RIVET_TOKEN |-> token],
     resolvConf |-> resolvConf,
     pc |-> "start",
     READY_URL |-> <<>>,
     posts |-> <<>>,
     stdout |-> <<>>,
     exitCode |-> 0]

\* set -e, set -u: a failing command or an unset variable ends the script.
ScriptAborts(r, code) == [r EXCEPT !.pc = "exited", !.exitCode = code]

\* echo; echo "Env:"; env; echo; echo "resolv.conf"
PrintEnv ==
    /\ ready.pc = "start"
    /\ ready' = [ready EXCEPT !.pc = "cat",
                              !.stdout = @ \o <<"Env:", "resolv.conf">>]
    /\ UNCHANGED notReadyVars

\* cat /etc/resolv.conf
CatResolvConf ==
    /\ ready.pc = "cat"
    /\ ready' = IF ready.resolvConf
                THEN [ready EXCEPT !.pc = "url"]
                ELSE ScriptAborts(ready, 1)
    /\ UNCHANGED notReadyVars

\* READY_URL="$RIVET_API_ENDPOINT/matchmaker/lobbies/ready"; echo "Sending ..."
SetReadyUrl ==
    /\ ready.pc = "url"
    /\ ready' = IF ready.env.RIVET_API_ENDPOINT = Unset
                THEN ScriptAborts(ready, 2)
                ELSE [ready EXCEPT
                         !.pc = "curl",
                         !.READY_URL = <<ready.env.RIVET_API_ENDPOINT,
                                         "/matchmaker/lobbies/ready">>,
                         !.stdout = @ \o <<"Sending ready to">>]
    /\ UNCHANGED notReadyVars

\* curl --fail --insecure --request POST --header ... --data "{}" "$READY_URL"
\* An unset RIVET_TOKEN ends the script before curl runs; a URL without a host
\* makes curl fail before it sends anything.
SendReady(status) ==
    /\ ready.pc = "curl"
    /\ ready' =
          IF ready.env.RIVET_TOKEN = Unset THEN ScriptAborts(ready, 2)
          ELSE IF ready.READY_URL[1] = "" THEN ScriptAborts(ready, 3)
          ELSE LET post == [method |-> "POST",
                            url |-> ready.READY_URL,
                            contentType |-> "application/json",
                            authorization |-> <<"Bearer", ready.env.RIVET_TOKEN>>,
                            data |-> "{}",
                            status |-> status]
                   sent == [ready EXCEPT !.posts = Append(@, post)]
               IN IF CurlExit(status) # 0
                  THEN ScriptAborts(sent, CurlExit(status))
                  ELSE [sent EXCEPT !.pc = "echo"]
    /\ UNCHANGED notReadyVars

\* echo "Success, waiting indefinitely"; tail -f /dev/null
WaitIndefinitely ==
    /\ ready.pc = "echo"
    /\ ready' = [ready EXCEPT !.pc = "waiting",
                              !.stdout = @ \o <<"Success, waiting indefinitely">>]
    /\ UNCHANGED notReadyVars

ReadyIdle == ready = ScriptAborts(StartScript(Unset, Unset, FALSE), 1)

NextReady ==
    \/ PrintEnv
    \/ CatResolvConf
    \/ SetReadyUrl
    \/ \E status \in HttpStatuses : SendReady(status)
    \/ WaitIndefinitely

(***************************************************************************)
(* Part 15: generateTemplate                                               *)
(***************************************************************************)

\* The keys of TEMPLATES, in the order main iterates over them.
TemplateNames == <<"single", "multi">>

\* config.datacenters of a template: one datacenter, or two.
DatacenterLists == {<<"dc-a">>, <<"dc-a", "dc-b">>}

\* The services generated for each datacenter, in the order of the loop body.
DatacenterServices == <<"postgres", "rivet-engine", "vector-server", "vector-client",
                        "otel-collector-server", "otel-collector-client">>

\* The files the generators write, in call order; a path is the directory
\* under the output directory and the service or file name.
RECURSIVE DatacenterFiles(_)
DatacenterFiles(datacenters) ==
    IF datacenters = <<>> THEN <<>>
    ELSE [i \in 1..Len(DatacenterServices) |-> <<datacenters[1], DatacenterServices[i]>>]
         \o DatacenterFiles(Tail(datacenters))

Generated(datacenters) ==
    <<<<"core", "clickhouse">>, <<"core", "grafana">>>>
    \o DatacenterFiles(datacenters)
    \o <<<<".", "runner">>, <<".", "docker-compose.yml">>,
         <<".", "README.md">>, <<".", ".gitattributes">>>>

\* A file of an output directory: its path and which run wrote it.
File(path, writtenBy) == [path |-> path, writtenBy |-> writtenBy]

\* An output directory: <<>> when it does not exist, else <<its files>>.
NoDirectory == <<>>

existsSync(dir) == dir # NoDirectory

\* rmSync left out: the directory stays as it is.
rmSyncKeeps(dir) == dir

\* fs.rmSync(outputDir, { recursive: true, force: true })
rmSync(dir) == NoDirectory

\* fs.mkdirSync(outputDir, { recursive: true })
mkdirSync(dir) == IF existsSync(dir) THEN dir ELSE <<{}>>

\* A write of the context into the output directory: the file at that path is
\* created or replaced.
writeFile(dir, path) ==
    <<{f \in dir[1] : f.path # path} \cup {File(path, "this run")}>>

\* The template main is at.
TemplateName == TemplateNames[tmpl.at]

\* generateTemplate: remove the output directory if it exists.
RemoveOutputDir ==
    /\ tmpl.pc = "remove"
    /\ tmpl' = [tmpl EXCEPT
                   !.pc = "create",
                   !.disk[TemplateName] = IF existsSync(@) THEN rmSync(@) ELSE @]
    /\ UNCHANGED notTmplVars

\* generateTemplate: create the output directory if it does not exist, and
\* make the context.
CreateOutputDir ==
    /\ tmpl.pc = "create"
    /\ tmpl' = [tmpl EXCEPT
                   !.pc = "generate",
                   !.next = 1,
                   !.disk[TemplateName] = IF ~existsSync(@) THEN mkdirSync(@) ELSE @]
    /\ UNCHANGED notTmplVars

\* The next generator call of generateTemplate writes its file.
Generate ==
    /\ tmpl.pc = "generate"
    /\ tmpl.next <= Len(Generated(tmpl.config[TemplateName]))
    /\ LET path == Generated(tmpl.config[TemplateName])[tmpl.next]
       IN tmpl' = [tmpl EXCEPT
                      !.next = @ + 1,
                      !.written[TemplateName] = @ \cup {path},
                      !.disk[TemplateName] = writeFile(@, path)]
    /\ UNCHANGED notTmplVars

\* A generator throws: generateTemplate and main end there.
GeneratorThrows ==
    /\ tmpl.pc = "generate"
    /\ tmpl.next <= Len(Generated(tmpl.config[TemplateName]))
    /\ tmpl' = [tmpl EXCEPT !.pc = "failed"]
    /\ UNCHANGED notTmplVars

\* generateTemplate logs and returns; main goes on to the next template.
GenerateTemplateReturns ==
    /\ tmpl.pc = "generate"
    /\ tmpl.next > Len(Generated(tmpl.config[TemplateName]))
    /\ tmpl' = [tmpl EXCEPT
                   !.completed = @ \cup {TemplateName},
                   !.stdout = Append(@, <<"Generated Docker Compose template:", TemplateName>>),
                   !.at = IF tmpl.at < Len(TemplateNames) THEN @ + 1 ELSE @,
                   !.pc = IF tmpl.at < Len(TemplateNames) THEN "remove" ELSE "done"]
    /\ UNCHANGED notTmplVars

\* The templates' names as a set.
TemplateSet == {TemplateNames[i] : i \in 1..Len(TemplateNames)}

\* What an earlier run of an earlier version of the generator left in an
\* output directory: its files for two datacenters and one file the
\* generators no longer write.
PreviousOutput ==
    <<{File(Generated(<<"dc-a", "dc-b">>)[i], "previous run") :
          i \in 1..Len(Generated(<<"dc-a", "dc-b">>))}
      \cup {File(<<"core", "prometheus">>, "previous run")}>>

\* main starts: TEMPLATES and the output directories as they are found.
Generating(config, disk) ==
    [config |-> config,
     disk |-> disk,
     at |-> 1,
     pc |-> "remove",
     next |-> 1,
     written |-> [t \in TemplateSet |-> {}],
     completed |-> {},
     stdout |-> <<>>]

TmplIdle ==
    tmpl = [Generating([t \in TemplateSet |-> <<"dc-a">>],
                       [t \in TemplateSet |-> NoDirectory]) EXCEPT !.pc = "failed"]

NextTmpl ==
    \/ RemoveOutputDir
    \/ CreateOutputDir
    \/ Generate
    \/ GeneratorThrows
    \/ GenerateTemplateReturns

(***************************************************************************)
(* Part 16: the shared syntax highlighter                                  *)
(***************************************************************************)

\* Number of highlight requests followed.
MaxRequests == 3

HighlightRequests == 1..MaxRequests

\* An optional value that is not set.
Nullish == <<>>

\* A highlight request that has not started.
NotRequested == [pc |-> "idle", awaits |-> Nullish, used |-> Nullish, joined |-> FALSE]

\* createHighlighter called on every call: each call starts a construction of
\* its own and returns its promise.
createHighlighterEachCall(lib) ==
    [lib EXCEPT !.started = @ + 1, !._shiki = <<lib.started + 1>>]

\* shiki.getSingletonHighlighter up to its first await: the first call starts
\* the construction and keeps its promise in _shiki; every later call awaits
\* that promise. Promises and instances are numbered by construction.
getSingletonHighlighter(lib) ==
    IF lib._shiki = Nullish
    THEN [lib EXCEPT !.started = @ + 1, !._shiki = <<lib.started + 1>>]
    ELSE lib

\* A highlight request runs up to its first await. Without an active file it
\* returns at once. With `highlighter` set, `??=` neither calls nor awaits
\* and the code is highlighted with it. Otherwise the request calls
\* getSingletonHighlighter and awaits the promise it returns.
StartHighlight(r, activeFile) ==
    /\ shiki.requests[r].pc = "idle"
    /\ LET lib == getSingletonHighlighter(shiki.lib)
           joined == \E o \in HighlightRequests : shiki.requests[o].pc = "awaiting"
       IN shiki' =
             IF ~activeFile
             THEN [shiki EXCEPT !.requests[r].pc = "returned"]
             ELSE IF shiki.highlighter # Nullish
                  THEN [shiki EXCEPT !.requests[r].pc = "highlighted",
                                     !.requests[r].used = shiki.highlighter]
                  ELSE [shiki EXCEPT !.lib = lib,
                                     !.requests[r] = [pc |-> "awaiting", awaits |-> lib._shiki,
                                                      used |-> Nullish, joined |-> joined]]
    /\ UNCHANGED notShikiVars

\* The construction behind a promise completes, or fails.
ConstructionSettles(p, ok) ==
    /\ p \in 1..shiki.lib.started
    /\ p \notin shiki.lib.resolved \cup shiki.lib.rejected
    /\ shiki' = IF ok THEN [shiki EXCEPT !.lib.resolved = @ \cup {p}]
                ELSE [shiki EXCEPT !.lib.rejected = @ \cup {p}]
    /\ UNCHANGED notShikiVars

\* A request's await returns: the instance is assigned to `highlighter` and
\* the code is highlighted with what `highlighter` then holds.
ResumeHighlight(r) ==
    /\ shiki.requests[r].pc = "awaiting"
    /\ shiki.requests[r].awaits[1] \in shiki.lib.resolved
    /\ shiki' = [shiki EXCEPT !.highlighter = shiki.requests[r].awaits,
                              !.requests[r].pc = "highlighted",
                              !.requests[r].used = shiki.requests[r].awaits]
    /\ UNCHANGED notShikiVars

\* A request's await throws: the construction it awaited failed.
HighlightThrows(r) ==
    /\ shiki.requests[r].pc = "awaiting"
    /\ shiki.requests[r].awaits[1] \in shiki.lib.rejected
    /\ shiki' = [shiki EXCEPT !.requests[r].pc = "threw"]
    /\ UNCHANGED notShikiVars

\* The module as loaded: `highlighter` is not set, the library has constructed
\* nothing, no request has started.
ModuleLoaded ==
    [highlighter |-> Nullish,
     lib |-> [_shiki |-> Nullish, started |-> 0, resolved |-> {}, rejected |-> {}],
     requests |-> [r \in HighlightRequests |-> NotRequested]]

ShikiIdle == shiki = ModuleLoaded

NextShiki ==
    \/ \E r \in HighlightRequests, activeFile \in BOOLEAN : StartHighlight(r, activeFile)
    \/ \E p \in 1..MaxRequests, ok \in BOOLEAN : ConstructionSettles(p, ok)
    \/ \E r \in HighlightRequests : ResumeHighlight(r)
    \/ \E r \in HighlightRequests : HighlightThrows(r)

(***************************************************************************)
(* Part 17: ConnectionCheck                                                *)
(***************************************************************************)

\* refetchInterval of the runners query, in milliseconds.
RefetchInterval == 1000

RunnerNames == {"default", "worker"}

\* The runners that can be connected: one per datacenter and name.
Runners == [datacenter : Datacenters, name : RunnerNames]

\* A form value that was not entered.
NotEntered == ""

\* The test with the datacenter left out: a runner of that name anywhere.
successByName(queryData, datacenter, runnerName) ==
    /\ queryData # Nullish
    /\ \E runner \in queryData[1] : runner.name = runnerName

\* !!queryData?.find(runner => runner.datacenter === datacenter
\*                             && runner.name === runnerName)
success(queryData, datacenter, runnerName) ==
    /\ queryData # Nullish
    /\ \E runner \in queryData[1] :
          runner.datacenter = datacenter /\ runner.name = runnerName

\* A render of ConnectionCheck and the effects after it: `success` is computed
\* from the query's data and the watched form values, and the effect calls
\* onChange(success) on mount and whenever `success` differs from the value
\* of the render before. wasSuccess records that the effect has set the field
\* to true at some time.
Rendered(c) ==
    LET now == success(c.queryData, c.form.datacenter, c.form.runnerName)
    IN IF c.dep # <<now>>
       THEN [c EXCEPT !.dep = <<now>>, !.form.success = now,
                      !.wasSuccess = @ \/ now]
       ELSE c

\* The component mounts: the query gets its observer, which fetches and arms
\* the interval; first render.
MountConnectionCheck ==
    /\ ~conn.mounted
    /\ conn' = Rendered([conn EXCEPT !.mounted = TRUE,
                                     !.dep = Nullish,
                                     !.fetching = TRUE,
                                     !.interval = <<RefetchInterval>>])
    /\ UNCHANGED notConnVars

\* The fetch in flight resolves with the runners connected at that moment.
RunnersFetched ==
    /\ conn.fetching
    /\ conn' = IF conn.mounted
               THEN Rendered([conn EXCEPT !.fetching = FALSE, !.queryData = <<conn.connected>>])
               ELSE [conn EXCEPT !.fetching = FALSE, !.queryData = <<conn.connected>>]
    /\ UNCHANGED notConnVars

\* The fetch in flight fails: the query keeps the data it had.
RunnersFetchFails ==
    /\ conn.fetching
    /\ conn' = IF conn.mounted THEN Rendered([conn EXCEPT !.fetching = FALSE])
               ELSE [conn EXCEPT !.fetching = FALSE]
    /\ UNCHANGED notConnVars

\* The interval elapses while the query is observed: it is fetched again.
IntervalElapses ==
    /\ conn.mounted
    /\ conn.interval # Nullish
    /\ ~conn.fetching
    /\ conn' = [conn EXCEPT !.fetching = TRUE]
    /\ UNCHANGED notConnVars

\* The user picks a datacenter or types a runner name: watch re-renders.
ChangeForm(datacenter, runnerName) ==
    /\ <<datacenter, runnerName>> # <<conn.form.datacenter, conn.form.runnerName>>
    /\ LET changed == [conn EXCEPT !.form.datacenter = datacenter,
                                   !.form.runnerName = runnerName]
       IN conn' = IF conn.mounted THEN Rendered(changed) ELSE changed
    /\ UNCHANGED notConnVars

\* A runner connects to the engine, or disconnects from it.
RunnerConnects(runner) ==
    /\ runner \notin conn.connected
    /\ conn' = [conn EXCEPT !.connected = @ \cup {runner}]
    /\ UNCHANGED notConnVars

RunnerDisconnects(runner) ==
    /\ runner \in conn.connected
    /\ conn' = [conn EXCEPT !.connected = @ \ {runner}]
    /\ UNCHANGED notConnVars

\* The component unmounts: the observer goes, and the interval with it.
UnmountConnectionCheck ==
    /\ conn.mounted
    /\ conn' = [conn EXCEPT !.mounted = FALSE, !.interval = Nullish]
    /\ UNCHANGED notConnVars

\* The wizard before the check is shown.
NotMounted(successField) ==
    [mounted |-> FALSE,
     connected |-> {},
     queryData |-> Nullish,
     fetching |-> FALSE,
     interval |-> Nullish,
     dep |-> Nullish,
     wasSuccess |-> FALSE,
     form |-> [datacenter |-> NotEntered, runnerName |-> NotEntered,
               success |-> successField]]

ConnIdle == conn = NotMounted(FALSE)

NextConn ==
    \/ MountConnectionCheck
    \/ RunnersFetched
    \/ RunnersFetchFails
    \/ IntervalElapses
    \/ \E datacenter \in Datacenters \cup {NotEntered},
          runnerName \in RunnerNames \cup {NotEntered} : ChangeForm(datacenter, runnerName)
    \/ \E runner \in Runners : RunnerConnects(runner)
    \/ \E runner \in Runners : RunnerDisconnects(runner)
    \/ UnmountConnectionCheck

(***************************************************************************)
(* Specifications                                                          *)
(***************************************************************************)

AppIdle ==
    /\ TabIdle
    /\ ReadyIdle
    /\ TmplIdle
    /\ ShikiIdle
    /\ ConnIdle

ToolsIdle ==
    /\ AppIdle
    /\ RelIdle
    /\ SdkIdle
    /\ QueryIdle
    /\ CacheIdle
    /\ FernIdle
    /\ BootIdle

\* The parts of the first five specifications at rest.
CoreIdle ==
    /\ AppIdle
    /\ ResetIdle
    /\ ActorsIdle
    /\ BumpIdle
    /\ JsonIdle
    /\ ReaderIdle

BuildsIdle ==
    /\ builds = [b \in BuildIds |-> [name |-> NoTag, current |-> NoTag]]
    /\ mut = [m \in MutIds |-> Idle]

InitReset ==
    /\ redis \in ResetStores
    /\ call = [lobbies |-> <<>>, tick |-> 0]
    /\ snap = <<>>
    /\ BuildsIdle
    /\ ActorsIdle
    /\ BumpIdle
    /\ JsonIdle
    /\ ToolsIdle
    /\ ReaderIdle

\* The builds before any mutation: all but the last carry the name "a", the
\* last carries either name or none, and any of them may be tagged current.
InitialBuilds ==
    {bs \in [BuildIds -> [name : Names \cup {NoTag}, current : {"true", NoTag}]] :
        \A b \in BuildIds : b < NumBuilds => bs[b].name = "a"}

InitBuilds ==
    /\ builds \in InitialBuilds
    /\ mut = [m \in MutIds |-> Idle]
    /\ ResetIdle
    /\ ActorsIdle
    /\ BumpIdle
    /\ JsonIdle
    /\ ToolsIdle
    /\ ReaderIdle

InitActors ==
    /\ ActorsIdle
    /\ BuildsIdle
    /\ ResetIdle
    /\ BumpIdle
    /\ JsonIdle
    /\ ToolsIdle
    /\ ReaderIdle

InitBump ==
    /\ files \in Trees
    /\ orig = files
    /\ bump = Running(1)
    /\ BuildsIdle
    /\ ResetIdle
    /\ ActorsIdle
    /\ JsonIdle
    /\ ToolsIdle
    /\ ReaderIdle

InitJson ==
    /\ obj \in JValues
    /\ maxSize \in 0..MaxCeiling
    /\ result = NotCalled
    /\ BuildsIdle
    /\ ResetIdle
    /\ ActorsIdle
    /\ BumpIdle
    /\ ToolsIdle
    /\ ReaderIdle

\* One step of mutation run m.
MutationStep(m) ==
    \/ GetBuild(m)
    \/ ListCurrentBuilds(m)
    \/ ClearNext(m)
    \/ ClearDone(m)
    \/ PatchTarget(m)
    \/ ApiCallFails(m)
    \/ Settle(m)

\* Mutations run one at a time: a run starts only when no other is in flight.
NextBuildsSeq ==
    \/ \E m \in MutIds, b \in BuildIds, req \in Requests :
          /\ \A k \in MutIds : mut[k].pc = "idle"
          /\ StartMutation(m, b, req)
    \/ \E m \in MutIds : MutationStep(m)

\* Mutations of several dashboard sessions run concurrently.
NextBuildsConc ==
    \/ \E m \in MutIds, b \in BuildIds, req \in Requests : StartMutation(m, b, req)
    \/ \E m \in MutIds : MutationStep(m)

SpecBuildsSeq == InitBuilds /\ [][NextBuildsSeq]_vars

SpecBuildsConc == InitBuilds /\ [][NextBuildsConc]_vars

SpecReset == InitReset /\ [][NextReset]_vars

SpecActors == InitActors /\ [][NextActors]_vars

SpecBump == InitBump /\ [][NextBump]_vars

SpecJson == InitJson /\ [][NextJson]_vars

InitRelease ==
    /\ rel \in Invocations
    /\ BuildsIdle /\ CoreIdle
    /\ SdkIdle /\ QueryIdle /\ CacheIdle /\ FernIdle /\ BootIdle

InitSdk ==
    /\ sdk \in {Publishing(ActorPackages, TRUE), Publishing(ApiAndActorPackages, FALSE)}
    /\ BuildsIdle /\ CoreIdle
    /\ RelIdle /\ QueryIdle /\ CacheIdle /\ FernIdle /\ BootIdle

InitQuery ==
    /\ query = Fetching
    /\ BuildsIdle /\ CoreIdle
    /\ RelIdle /\ SdkIdle /\ CacheIdle /\ FernIdle /\ BootIdle

InitCache ==
    /\ cache \in {Cached(keys) : keys \in SUBSET CacheKeys}
    /\ BuildsIdle /\ CoreIdle
    /\ RelIdle /\ SdkIdle /\ QueryIdle /\ FernIdle /\ BootIdle

InitFern ==
    /\ fern \in {GenSh(repoPath, group, image) : repoPath, group, image \in BOOLEAN}
    /\ BuildsIdle /\ CoreIdle
    /\ RelIdle /\ SdkIdle /\ QueryIdle /\ CacheIdle /\ BootIdle

InitBoot ==
    /\ boot \in {Booting(options) : options \in ShellOptions}
    /\ BuildsIdle /\ CoreIdle
    /\ RelIdle /\ SdkIdle /\ QueryIdle /\ CacheIdle /\ FernIdle

\* The builds a reader starts from: every name group has exactly one current
\* build, and builds without a name are not current.
InitBuildsRead ==
    /\ builds \in {bs \in InitialBuilds :
                      /\ \A n \in Names : (\E b \in BuildIds : bs[b].name = n) =>
                             Cardinality({b \in BuildIds : bs[b].name = n
                                                           /\ bs[b].current = "true"}) = 1
                      /\ \A b \in BuildIds : bs[b].name = NoTag => bs[b].current = NoTag}
    /\ mut = [m \in MutIds |-> Idle]
    /\ ResetIdle /\ ActorsIdle /\ BumpIdle /\ JsonIdle
    /\ ToolsIdle
    /\ ReaderIdle

\* One set-current run, with readers of the name groups beside it.
NextBuildsRead ==
    \/ \E m \in MutIds, b \in BuildIds :
          /\ \A k \in MutIds : mut[k].pc = "idle"
          /\ StartMutation(m, b, [current |-> "true"])
    \/ \E m \in MutIds :
          GetBuild(m) \/ ListCurrentBuilds(m) \/ ClearNext(m) \/ ClearDone(m) \/ PatchTarget(m)
    \/ \E name \in Names : ReadGroup(name)

SpecRelease == InitRelease /\ [][NextRelease]_vars

SpecSdk == InitSdk /\ [][NextSdk]_vars

SpecQuery == InitQuery /\ [][NextQuery]_vars

SpecCache == InitCache /\ [][NextCache]_vars

SpecFern == InitFern /\ [][NextFern]_vars

SpecBoot == InitBoot /\ [][NextBoot]_vars

SpecBuildsRead == InitBuildsRead /\ [][NextBuildsRead]_vars

\* Every part of the earlier specifications at rest.
BaseIdle ==
    /\ BuildsIdle
    /\ ResetIdle /\ ActorsIdle /\ BumpIdle /\ JsonIdle /\ ReaderIdle
    /\ RelIdle /\ SdkIdle /\ QueryIdle /\ CacheIdle /\ FernIdle /\ BootIdle

InitTab ==
    /\ tab \in [disabled : DisabledProps, status : StatusTypes,
                 state : [enabled : BOOLEAN, json : {JUndefined}], view : {<<>>}]
    /\ BaseIdle
    /\ ReadyIdle /\ TmplIdle /\ ShikiIdle /\ ConnIdle

SpecTab == InitTab /\ [][NextTab]_vars

InitReady ==
    /\ ready \in {StartScript(endpoint, token, resolvConf) :
                     endpoint \in Endpoints, token \in Tokens, resolvConf \in BOOLEAN}
    /\ BaseIdle
    /\ TabIdle /\ TmplIdle /\ ShikiIdle /\ ConnIdle

SpecReady == InitReady /\ [][NextReady]_vars

InitTmpl ==
    /\ tmpl \in {Generating(config, disk) :
                    config \in [TemplateSet -> DatacenterLists],
                    disk \in [TemplateSet -> {NoDirectory, <<{}>>, PreviousOutput}]}
    /\ BaseIdle
    /\ TabIdle /\ ReadyIdle /\ ShikiIdle /\ ConnIdle

SpecTmpl == InitTmpl /\ [][NextTmpl]_vars

InitShiki ==
    /\ shiki = ModuleLoaded
    /\ BaseIdle
    /\ TabIdle /\ ReadyIdle /\ TmplIdle /\ ConnIdle

SpecShiki == InitShiki /\ [][NextShiki]_vars

InitConn ==
    /\ conn \in {NotMounted(successField) : successField \in BOOLEAN}
    /\ BaseIdle
    /\ TabIdle /\ ReadyIdle /\ TmplIdle /\ ShikiIdle

SpecConn == InitConn /\ [][NextConn]_vars

(***************************************************************************)
(* Properties                                                              *)
(***************************************************************************)

\* The builds of a name group that are tagged current.
CurrentBuildsOf(name) ==
    {b \in BuildIds : builds[b].name = name /\ builds[b].current = "true"}

SetsCurrent(m) ==
    /\ mut[m].pc = "done"
    /\ mut[m].request.current = "true"
    /\ builds[mut[m].buildId].name \in Names

\* C1: when set-current operations run one at a time, after each of them the
\* target build is the one and only current build of its name group.
C1_SingleCurrentSequential ==
    \A m \in MutIds :
        SetsCurrent(m) =>
            CurrentBuildsOf(builds[mut[m].buildId].name) = {mut[m].buildId}

\* A set-current operation has completed after untagging another build.
C1_Witness ==
    \E m \in MutIds :
        /\ SetsCurrent(m)
        /\ mut[m].cleared # {}
        /\ mut[m].buildId \notin mut[m].cleared

\* C2: once two overlapping set-current operations on different builds of one
\* name group have both completed, at most one build of the group is current.
C2_SingleCurrentConcurrent ==
    \A m1, m2 \in MutIds :
        ( /\ m1 # m2
          /\ SetsCurrent(m1) /\ SetsCurrent(m2)
          /\ mut[m1].overlapped /\ mut[m2].overlapped
          /\ mut[m1].buildId # mut[m2].buildId
          /\ builds[mut[m1].buildId].name = builds[mut[m2].buildId].name )
        => Cardinality(CurrentBuildsOf(builds[mut[m1].buildId].name)) <= 1

\* What a reset leaves for the lobby entry e of its call, given the lobby's
\* generation counter, occupancy and ranking scores.
ResetValues(e, closed, c, player_count, normal, party) ==
    /\ closed = FALSE
    /\ c = 0
    /\ normal = {tonumber(e.max.normal) - player_count}
    /\ party = {tonumber(e.max.party) - player_count}

WorkflowsRun(r) == Cardinality({i \in 1..Len(r.trips) : r.trips[i] = CreateWorkflow})

\* C5: a get-or-create call that follows a creating call with the same
\* namespace and lookup key returns the same actor identifier and runs no
\* creation workflow: it resolves the namespace and fetches the actor.
C5_GetOrCreateIdempotent ==
    \A i, j \in 1..Len(calls) :
        (i < j /\ calls[i].created /\ calls[i].ns = calls[j].ns /\ calls[i].key = calls[j].key)
        => /\ calls[j].actor_id = calls[i].actor_id
           /\ WorkflowsRun(calls[j]) = 0
           /\ calls[j].trips = <<ResolveNamespace, GetActor>>

\* A creating call was followed by a call with the same namespace and key,
\* after another actor was created in between.
C5_Witness ==
    /\ Len(calls) = 3
    /\ calls[1].created /\ calls[2].created
    /\ calls[3].ns = calls[1].ns /\ calls[3].key = calls[1].key

\* C6: a get-or-create call makes exactly 2 round trips when the actor exists,
\* exactly 2 when it is created in the current datacenter, and at most 3 when
\* it is created in another datacenter.
C6_RoundTripBudget ==
    \A i \in 1..Len(calls) :
        LET r == calls[i]
        IN /\ ~r.created => Len(r.trips) = 2
           /\ (r.created /\ r.datacenter = r.here) => Len(r.trips) = 2
           /\ (r.created /\ r.datacenter # r.here) => Len(r.trips) <= 3

\* All three cases have been served: an existing actor, a local creation and a
\* creation forwarded to another datacenter.
C6_Witness ==
    /\ \E i \in 1..Len(calls) : ~calls[i].created
    /\ \E i \in 1..Len(calls) : calls[i].created /\ calls[i].datacenter = calls[i].here
    /\ \E i \in 1..Len(calls) : calls[i].created /\ calls[i].datacenter # calls[i].here

\* The paths updateVersion has written, and those it has staged.
Written == {bump.log[i].path : i \in {k \in 1..Len(bump.log) : bump.log[k].op = "write"}}

Staged == {bump.log[i].path : i \in {k \in 1..Len(bump.log) : bump.log[k].op = "git add"}}

\* C7: when the step fails because a glob matches nothing or a file lacks the
\* pattern, the run has written and staged no file.
C7_FailureWritesNothing ==
    bump.pc = "failed" => (Written = {} /\ Staged = {} /\ files = orig)

\* The line of a file that a rule's pattern matches first.
FirstMatch(rule, file) ==
    CHOOSE i \in 1..Len(file) :
        file[i].pat = rule.find /\ \A j \in 1..(i - 1) : file[j].pat # rule.find

C9_NeverLongerThanCeiling ==
    result.done => (result.threw \/ Len(result.out) <= maxSize)

\* C10: for a value whose JSON text is within the ceiling, safeStringify
\* returns, and returns that text.
C10_UnderCeilingSameAsStringify ==
    (result.done /\ Len(Stringify(obj)) <= maxSize)
        => (~result.threw /\ result.out = Stringify(obj))

(***************************************************************************)
(* The release entry point                                                 *)
(***************************************************************************)

\* The commit the invocation was given, or the one read from HEAD.
CommitInput == IF rel.commitArg # <<>> THEN rel.commitArg ELSE rel.head

\* The steps that change the repository or its remote.
MutatingSteps ==
    {"updateVersion", "generateFern", "gitCommit", "configureReleasePlease", "gitPush"}

\* Where a step stands in the order of the release, validation first.
Rank(step) == IF step = "validateGit" THEN 0 ELSE IndexOf(StepOrder, step)

C12_MutatingStepsAreValidated ==
    /\ \A i \in 1..Len(rel.trace) :
          rel.trace[i].step \in MutatingSteps =>
             \E j \in 1..(i - 1) : rel.trace[j].step = "validateGit" /\ rel.trace[j].ok
    /\ (rel.pc = "step" /\ rel.trace = <<>>) => "setupCi" \in rel.flags

\* C13: the steps that ran are selected ones, in the order of the release,
\* after validation; a failed check, validation or step is the last thing that
\* ran, its error is printed, the exit code is 1 and the completion message is
\* not printed; the message is printed only after every selected step succeeded.
C13_OrderedAndFailFast ==
    /\ \A i, j \in 1..Len(rel.trace) :
          i < j => Rank(rel.trace[i].step) < Rank(rel.trace[j].step)
    /\ \A i \in 1..Len(rel.trace) :
          /\ rel.trace[i].step # "validateGit" => Selected(rel.flags, rel.trace[i].step)
          /\ ~rel.trace[i].ok => i = Len(rel.trace) /\ rel.pc = "exited" /\ rel.exitCode = 1
    /\ rel.stderr # <<>> <=> rel.exitCode = 1
    /\ rel.exitCode = 1 =>
          /\ rel.pc = "exited"
          /\ \A i \in 1..Len(rel.stdout) : rel.stdout[i] # <<"==>", "Complete">>
          /\ Len(rel.stderr) = 1
    /\ (\E i \in 1..Len(rel.stdout) : rel.stdout[i] = <<"==>", "Complete">>) =>
          /\ rel.exitCode = 0
          /\ \A k \in 1..Len(StepOrder) :
                Selected(rel.flags, StepOrder[k]) =>
                   \E i \in 1..Len(rel.trace) :
                      rel.trace[i].step = StepOrder[k] /\ rel.trace[i].ok
    /\ \A i \in 1..Len(rel.trace) :
          rel.trace[i].step # "validateGit" =>
             \A k \in 1..(Rank(rel.trace[i].step) - 1) :
                Selected(rel.flags, StepOrder[k]) =>
                   \E j \in 1..(i - 1) : rel.trace[j].step = StepOrder[k] /\ rel.trace[j].ok

\* The fourth selected step failed after validation and three steps succeeded.
C13_Witness ==
    /\ rel.exitCode = 1
    /\ Len(rel.trace) = 5
    /\ rel.trace[1].step = "validateGit"
    /\ ~rel.trace[5].ok
    /\ Len(rel.stdout) = 4

(***************************************************************************)
(* Publishing the SDK packages                                             *)
(***************************************************************************)

\* C14: a run of publishSdk that fails has published none of its packages.
C14_FailureLeavesNothingPublished ==
    sdk.pc = "threw" => sdk.published = {}

PackageNamed(name) ==
    CHOOSE pkg \in {sdk.packages[i] : i \in 1..Len(sdk.packages)} : pkg.name = name

\* The lookup logged in e failed and its stderr has the not-found text of the
\* package's registry for the package and version looked up.
FailedAsNotFound(e) ==
    /\ e.check.code # 0
    /\ StringIncludes(e.check.stderr,
                      IF PackageNamed(e.name).npm THEN NpmNotFound(e.version)
                      ELSE JsrNotFound(e.name, e.version))

PublishCommands ==
    {"publish", "set version", "publish --new-version", "publish --access public"}

\* C15: a publish command runs for a package only after the lookup of that
\* package at the release version failed with the not-found text; after a
\* lookup that succeeded the package is not published, nothing is thrown and
\* the next package follows; a lookup that failed otherwise is the last thing
\* the run did, the run has thrown, and the package is not published.
C15_PublishOnlyWhenNotFound ==
    /\ \A i \in 1..Len(sdk.log) :
          sdk.log[i].cmd \in PublishCommands =>
             \E j \in 1..(i - 1) :
                /\ sdk.log[j].cmd = "lookup"
                /\ sdk.log[j].name = sdk.log[i].name
                /\ sdk.log[j].version = SdkVersion
                /\ FailedAsNotFound(sdk.log[j])
    /\ \A j \in 1..Len(sdk.log) :
          (sdk.log[j].cmd = "lookup" /\ sdk.log[j].check.code = 0) =>
             /\ sdk.log[j].name \notin sdk.published
             /\ \A i \in 1..Len(sdk.log) :
                   sdk.log[i].name = sdk.log[j].name => sdk.log[i].cmd \notin PublishCommands
             /\ j = Len(sdk.log) =>
                   /\ sdk.pc # "threw"
                   /\ sdk.pc = "returned" \/ sdk.packages[sdk.at].name # sdk.log[j].name
             /\ j < Len(sdk.log) => sdk.log[j + 1].name # sdk.log[j].name
    /\ \A j \in 1..Len(sdk.log) :
          (sdk.log[j].cmd = "lookup" /\ sdk.log[j].check.code # 0
             /\ ~FailedAsNotFound(sdk.log[j])) =>
             /\ j = Len(sdk.log)
             /\ sdk.pc = "threw"
             /\ sdk.log[j].name \notin sdk.published
    /\ \A name \in sdk.published :
          \E i \in 1..Len(sdk.log) :
             /\ sdk.log[i].name = name
             /\ sdk.log[i].cmd \in PublishCommands \ {"set version"}
             /\ sdk.log[i].outcome = "ok"

\* One package was skipped because its version exists, the next was published
\* after a not-found lookup, and the lookup of the third failed otherwise.
C15_Witness ==
    /\ sdk.pc = "threw"
    /\ Cardinality(sdk.published) = 1
    /\ \E j \in 1..Len(sdk.log) : sdk.log[j].cmd = "lookup" /\ sdk.log[j].check.code = 0
    /\ sdk.log[Len(sdk.log)].cmd = "lookup"

(***************************************************************************)
(* The retry rule                                                          *)
(***************************************************************************)

Is403(error) == error.kind = "http" /\ error.statusCode = 403

\* C16: a failure with status 403 is never followed by another attempt, and
\* any other failure is followed by one at most 3 times: a query is retried at
\* most 3 times, fails at most 4 times, and after the fourth failure it is in
\* its error state.
C16_BoundedRetriesNoneOn403 ==
    /\ \A i \in 1..Len(query.failures) :
          Is403(query.failures[i]) => i = Len(query.failures) /\ query.status = "error"
    /\ query.retries <= 3
    /\ Len(query.failures) <= 4
    /\ Len(query.failures) = 4 => query.status = "error"
    /\ query.retries = Len(query.failures) - (IF query.status = "error" THEN 1 ELSE 0)
    /\ (query.status = "error" /\ query.retries < 3) =>
          Is403(query.failures[Len(query.failures)])

\* A query gave up after three retries on server errors; its last failure was
\* not an authorization error.
C16_Witness ==
    /\ query.status = "error"
    /\ query.retries = 3
    /\ Len(query.failures) = 4
    /\ \A i \in 1..4 : query.failures[i].statusCode = 500

(***************************************************************************)
(* Invalidation after destroying an actor                                  *)
(***************************************************************************)

\* C17: once the destroy of actor A in project P and environment E has
\* succeeded and its invalidations ran, the cached query of A is stale and so
\* is every cached actor-list query of P and E, whatever follows "actors" in
\* its key.
C17_DestroyInvalidatesActorAndLists ==
    cache.pc = "settled" =>
        \A k \in DOMAIN cache.stale :
            (\/ MatchesKey(k, actorQueryKey(cache.opts[1], cache.opts[2], cache.opts[3]))
             \/ MatchesKey(k, projectActorsQueryKey(cache.opts[1], cache.opts[2])))
            => cache.stale[k]

(***************************************************************************)
(* The SDK generation script                                               *)
(***************************************************************************)

\* C18: when the Fern generation, the pack job or the clients job failed, the
\* script has exited with a non-zero status.
C18_FailedJobFailsScript ==
    (fern.pc = "exited" /\ fern.failed # {}) => fern.exit # 0

(***************************************************************************)
(* The node bootstrap script                                               *)
(***************************************************************************)

\* C19: the initialization script has run only if the request succeeded, its
\* response had all five values, each was substituted for its placeholder,
\* and no command of the script failed.
C19_InitializeOnlyAfterFullSubstitution ==
    boot.ran =>
        /\ boot.response.ok
        /\ boot.failed = {}
        /\ \A i \in 1..Len(InfoFields) :
              /\ InfoFields[i] \in boot.response.fields
              /\ boot.script[PlaceholderOf[i]] = Registered(InfoFields[i])

(***************************************************************************)
(* A reader beside a set-current run                                       *)
(***************************************************************************)

\* C20: a listing of a name group taken while a set-current run on a build of
\* that group is in flight shows exactly one current build.
C20_ReaderSeesOneCurrent ==
    (seen # <<>> /\ seen[1].inFlight # {}) => Cardinality(seen[1].current) = 1

(***************************************************************************)
(* Properties of the actor state tab                                       *)
(***************************************************************************)

\* The payload is an object whose _error member is an object whose code
\* member is the string state_too_large.
FlaggedTooLarge(json) ==
    /\ json.t = "object"
    /\ \E i \in 1..Len(json.e) :
          /\ json.e[i].k = ErrorKey
          /\ json.e[i].v.t = "object"
          /\ \E j \in 1..Len(json.e[i].v.e) :
                /\ json.e[i].v.e[j].k = CodeKey
                /\ json.e[i].v.e[j].v.t = "string"
                /\ json.e[i].v.e[j].v.s = StateTooLarge

\* C21: a rendered state tab shows exactly one view, chosen in this priority:
\* the inactive notice when the tab is disabled, whatever the status; the
\* unavailable notice on status error; the unsupported notice on status
\* unsupported; the loading notice on any other status but ready; the
\* enable-state guidance when ready and state is not enabled; the too-large
\* notice when the payload is flagged too large; and the editable state view
\* exactly when the tab is not disabled, the status is ready, state is enabled
\* and the payload is not flagged too large.
C21_StateTabViewByPriority ==
    tab.view # <<>> =>
        LET view == tab.view[1]
            disabled == tab.disabled = <<TRUE>>
            flagged == FlaggedTooLarge(tab.state.json)
        IN /\ Len(tab.view) = 1
           /\ view \in Views
           /\ view = (IF disabled THEN "inactive"
                      ELSE IF tab.status = "error" THEN "unavailable"
                      ELSE IF tab.status = "unsupported" THEN "unsupported"
                      ELSE IF tab.status # "ready" THEN "loading"
                      ELSE IF ~tab.state.enabled THEN "enable state"
                      ELSE IF flagged THEN "too large"
                      ELSE "editable state")
           /\ view = "editable state" <=>
                 /\ ~disabled
                 /\ tab.status = "ready"
                 /\ tab.state.enabled
                 /\ ~flagged

\* The editable view of an enabled state whose payload has an _error member
\* that is not the too-large flag, in a tab that was not passed `disabled`.
C21_Witness ==
    /\ tab.view = <<"editable state">>
    /\ HasProperty(tab.state.json, ErrorKey)
    /\ tab.disabled = <<>>

(***************************************************************************)
(* Properties of the example workload's start script                       *)
(***************************************************************************)

\* The server did not accept the request: no connection, or an HTTP error.
CallFailed(post) == post.status = 0 \/ post.status >= 400

C23_OutputIsExactlyThisRun ==
    /\ \A t \in tmpl.completed :
          /\ existsSync(tmpl.disk[t])
          /\ tmpl.disk[t][1] = {File(path, "this run") : path \in tmpl.written[t]}
    /\ tmpl.pc = "generate" =>
          /\ existsSync(tmpl.disk[TemplateName])
          /\ \A f \in tmpl.disk[TemplateName][1] : f.writtenBy = "this run"

\* A run over a directory that held the output of a previous run for two
\* datacenters has completed for one datacenter: the second datacenter's
\* files and the file no generator writes any more are gone.
C23_Witness ==
    /\ tmpl.pc = "done"
    /\ tmpl.config["multi"] = <<"dc-a">>
    /\ <<"dc-b", "postgres">> \notin {f.path : f \in tmpl.disk["multi"][1]}
    /\ <<"core", "prometheus">> \notin {f.path : f \in tmpl.disk["multi"][1]}
    /\ "multi" \in tmpl.completed
    /\ tmpl.written["multi"] # {}

(***************************************************************************)
(* Properties of the order of the patches of a set-current run             *)
(***************************************************************************)

\* The builds of a listing, as a set.
Listed(m) == {mut[m].listed[i] : i \in 1..Len(mut[m].listed)}

\* What a run has cleared so far is the front of what its listing returned,
\* and what it has yet to clear is the rest.
C24_ClearsInListOrder ==
    \A m \in MutIds :
        mut[m].pc \in {"clear", "patch", "done", "failed"} =>
            mut[m].listed = SortedSeq(mut[m].cleared) \o mut[m].currentBuilds

\* One step of the builds mutation, as the claim allows it.
C24_Step ==
    /\ \A m \in MutIds :
          \* the patch of the target build is issued with every listed build
          \* cleared; run alone, each of them but the target is untagged then
          /\ (mut[m].pc = "patch" /\ mut'[m].pc = "done") =>
                /\ mut[m].currentBuilds = <<>>
                /\ mut[m].cleared = Listed(m)
                /\ \A c \in Listed(m) : builds[c].current = NoTag
          \* the clear-tag patches are issued one at a time, in list order
          /\ (mut[m].pc = "clear" /\ mut'[m].cleared # mut[m].cleared) =>
                /\ mut[m].currentBuilds # <<>>
                /\ mut'[m].cleared = mut[m].cleared \cup {Head(mut[m].currentBuilds)}
                /\ mut'[m].currentBuilds = Tail(mut[m].currentBuilds)
                /\ builds'[Head(mut[m].currentBuilds)].current = NoTag
                /\ \A b \in BuildIds \ {Head(mut[m].currentBuilds)} : builds'[b] = builds[b]
          \* a failing call changes no build, and a failed run issues no patch
          /\ (mut[m].pc # "failed" /\ mut'[m].pc = "failed") => builds' = builds
          /\ mut[m].pc = "failed" => mut'[m].pc \in {"failed", "idle"} /\ builds' = builds
    \* a build becomes current only by the last patch of a run that targets it
    /\ \A b \in BuildIds :
          (builds[b].current # "true" /\ builds'[b].current = "true") =>
              \E m \in MutIds : /\ mut[m].buildId = b
                                /\ mut[m].pc = "patch"
                                /\ mut'[m].pc = "done"

\* C24: in a set-current operation the patch that tags the target build is
\* issued only after the clear-tag patch of every build the listing returned
\* has completed, those patches being issued one at a time in list order; a
\* run in which fetching the build, the listing or a clear-tag patch failed
\* does not tag the target build.
C24_TagOnlyAfterAllCleared == [](C24_ClearsInListOrder) /\ [][C24_Step]_vars

\* A set-current run has tagged its target after clearing two listed builds.
C24_Witness ==
    \E m \in MutIds :
        /\ mut[m].pc = "done"
        /\ mut[m].request.current = "true"
        /\ Len(mut[m].listed) = 2
        /\ mut[m].cleared = Listed(m)
        /\ builds[mut[m].buildId].current = "true"

(***************************************************************************)
(* Properties of the batch flags of the release tool                       *)
(***************************************************************************)

\* The steps an invocation has called, validateGit aside.
StepsCalled == {rel.trace[i].step : i \in 1..Len(rel.trace)} \ {"validateGit"}

\* The steps each batch flag stands for.
SetupLocalSteps ==
    {"updateVersion", "generateFern", "gitCommit", "configureReleasePlease", "gitPush"}

SetupCiSteps == {"publishSdk"}

CompleteCiSteps == {"tagDocker", "updateArtifacts"}

\* The steps a set of flags asks for: those of its batch flags and those
\* named one by one.
Requested(flags) ==
    (IF "setupLocal" \in flags THEN SetupLocalSteps ELSE {})
    \cup (IF "setupCi" \in flags THEN SetupCiSteps ELSE {})
    \cup (IF "completeCi" \in flags THEN CompleteCiSteps ELSE {})
    \cup (flags \cap (SetupLocalSteps \cup SetupCiSteps \cup CompleteCiSteps))

\* C25: each batch flag selects a fixed set of steps: an invocation never calls
\* a step its flags do not ask for, and one that completes has called exactly
\* the steps they ask for (setupLocal: updateVersion, generateFern, gitCommit,
\* configureReleasePlease, gitPush; setupCi: publishSdk; completeCi: tagDocker,
\* updateArtifacts); an invocation with only CI batch flags never commits or
\* pushes; and with noValidateGit set, gitCommit, configureReleasePlease and
\* gitPush are never called, and an invocation that asks for one of them
\* does not complete.
C25_BatchFlagsSelectFixedSteps ==
    /\ StepsCalled \subseteq Requested(rel.flags)
    /\ (rel.pc = "exited" /\ rel.exitCode = 0) => StepsCalled = Requested(rel.flags)
    /\ (rel.flags # {} /\ rel.flags \subseteq {"setupCi", "completeCi"}) =>
          StepsCalled \cap {"gitCommit", "gitPush"} = {}
    /\ "noValidateGit" \in rel.flags =>
          /\ StepsCalled \cap {"gitCommit", "configureReleasePlease", "gitPush"} = {}
          /\ (Requested(rel.flags) \cap {"gitCommit", "configureReleasePlease", "gitPush"} # {}
              /\ rel.pc = "exited") => rel.exitCode = 1

\* An invocation with --setupLocal alone has completed after its five steps.
C25_Witness ==
    /\ rel.flags = {"setupLocal"}
    /\ rel.pc = "exited"
    /\ rel.exitCode = 0
    /\ StepsCalled = SetupLocalSteps

(***************************************************************************)
(* Properties of the publish fallback                                      *)
(***************************************************************************)

\* C26: the plain publish call of a package is attempted exactly when the
\* version-aware publish call of that package has just failed, and at most
\* once; when it fails too, publishSdk throws there: the package is not
\* published and no command for a later package runs.
C26_PlainPublishOnlyAsFallback ==
    /\ \A i \in 1..Len(sdk.log) :
          sdk.log[i].cmd = "publish --access public" =>
             /\ i > 1
             /\ sdk.log[i - 1].cmd = "publish --new-version"
             /\ sdk.log[i - 1].name = sdk.log[i].name
             /\ sdk.log[i - 1].outcome = "failed"
             /\ \A j \in 1..Len(sdk.log) :
                   (sdk.log[j].cmd = "publish --access public"
                      /\ sdk.log[j].name = sdk.log[i].name) => j = i
             /\ sdk.log[i].outcome = "failed" =>
                   /\ i = Len(sdk.log)
                   /\ sdk.pc = "threw"
                   /\ sdk.log[i].name \notin sdk.published
                   /\ sdk.packages[sdk.at].name = sdk.log[i].name
             /\ sdk.log[i].outcome = "ok" => sdk.log[i].name \in sdk.published
    /\ \A i \in 1..Len(sdk.log) :
          sdk.log[i].cmd = "publish --new-version" =>
             /\ sdk.log[i].outcome = "failed" =>
                   /\ i < Len(sdk.log)
                   /\ sdk.log[i + 1].cmd = "publish --access public"
                   /\ sdk.log[i + 1].name = sdk.log[i].name
             /\ sdk.log[i].outcome = "ok" =>
                   /\ sdk.log[i].name \in sdk.published
                   /\ \A j \in 1..Len(sdk.log) :
                         sdk.log[j].name = sdk.log[i].name =>
                            sdk.log[j].cmd # "publish --access public"

\* The first package was published by the plain call after its version-aware
\* call failed; for the second both calls failed and the run threw with the
\* third package untouched.
C26_Witness ==
    /\ sdk.pc = "threw"
    /\ Cardinality(sdk.published) = 1
    /\ sdk.at = 2
    /\ Len(sdk.packages) = 3
    /\ sdk.log[Len(sdk.log)].cmd = "publish --access public"
    /\ \E i \in 1..Len(sdk.log) :
          /\ sdk.log[i].cmd = "publish --access public"
          /\ sdk.log[i].outcome = "ok"

(***************************************************************************)
(* Properties of the generation counter and the frame of the reset         *)
(***************************************************************************)

\* The lobbies the last reset was called with.
Supplied == {call.lobbies[i].lobby : i \in 1..Len(call.lobbies)}

\* C27: a snapshot a client took of a lobby before a reset that supplied the
\* lobby holds a generation that differs from the lobby's counter c after the
\* reset, whatever generation it holds, 0 included.
C27_StaleGenerationDetectable ==
    (/\ snap # <<>>
     /\ snap[1].call.tick < call.tick
     /\ snap[1].lobby \in Supplied) =>
        redis.hash[key_lobby_config(snap[1].lobby)]["c"] # snap[1].c

\* Only what the reset may write differs between two keyspaces: the closed
\* flag and, for each lobby in `supplied`, field c and the lobby's member of
\* the two ranking sets of its group.
OnlyResetWrites(before, after, supplied) ==
    /\ DOMAIN after.str = DOMAIN before.str
    /\ DOMAIN after.hash = DOMAIN before.hash
    /\ DOMAIN after.zset = DOMAIN before.zset
    /\ \A l \in Lobbies :
          /\ after.zset[key_lobby_player_ids(l)] = before.zset[key_lobby_player_ids(l)]
          /\ DOMAIN after.hash[key_lobby_config(l)] = DOMAIN before.hash[key_lobby_config(l)]
          /\ \A f \in DOMAIN before.hash[key_lobby_config(l)] \ {"c"} :
                after.hash[key_lobby_config(l)][f] = before.hash[key_lobby_config(l)][f]
          /\ l \notin supplied =>
                /\ after.hash[key_lobby_config(l)] = before.hash[key_lobby_config(l)]
                /\ \A kind \in {"normal", "party"} :
                      ZSCORE(after, key_lobby_available_spots(kind, l), lobby_id(l))
                        = ZSCORE(before, key_lobby_available_spots(kind, l), lobby_id(l))
    /\ \A k \in DOMAIN before.zset :
          \A e \in (before.zset[k] \ after.zset[k]) \cup (after.zset[k] \ before.zset[k]) :
              \E l \in supplied :
                 /\ e[1] = lobby_id(l)
                 /\ \E kind \in {"normal", "party"} : k = key_lobby_available_spots(kind, l)

\* C30: a reset changes no lobby's player-ID set and writes nothing for the
\* lobbies it was not called with: their config hashes and their scores in
\* both ranking sets are as before; all it writes is the closed flag and, per
\* supplied lobby, field c and that lobby's member of the two ranking sets.
C30_ResetWritesOnlySuppliedLobbies ==
    [][IF call' # call
       THEN OnlyResetWrites(redis, redis',
                            {call'.lobbies[i].lobby : i \in 1..Len(call'.lobbies)})
       ELSE redis' = redis]_vars

\* A reset was called with one lobby while the other lobby of its group had
\* players, a bumped counter and a stale score, all of which it still has.
C30_Witness ==
    /\ call.tick = 1
    /\ Supplied = {1}
    /\ redis.hash[key_lobby_config(2)]["c"] = MaxGen
    /\ redis.zset[key_lobby_player_ids(2)] # {}
    /\ redis.zset[key_lobby_player_ids(1)] # {}
    /\ ZSCORE(redis, key_lobby_available_spots("normal", 2), lobby_id(2)) = {StaleScore}
    /\ ZSCORE(redis, key_lobby_available_spots("normal", 1), lobby_id(1)) # {StaleScore}

(***************************************************************************)
(* Properties of the shared syntax highlighter                             *)
(***************************************************************************)

\* C28: the highlighter is constructed at most once per process, also when a
\* request makes its first access while another still awaits the
\* construction: one construction is started, and all requests that
\* highlight use the same instance, the one `highlighter` holds.
C28_HighlighterConstructedOnce ==
    /\ shiki.lib.started <= 1
    /\ \A r, o \in HighlightRequests :
          (shiki.requests[r].used # Nullish /\ shiki.requests[o].used # Nullish) =>
              shiki.requests[r].used = shiki.requests[o].used
    /\ \A r \in HighlightRequests :
          shiki.requests[r].used # Nullish => shiki.requests[r].used = shiki.highlighter
    /\ \A r, o \in HighlightRequests :
          (shiki.requests[r].pc = "awaiting" /\ shiki.requests[o].pc = "awaiting") =>
              shiki.requests[r].awaits = shiki.requests[o].awaits

\* Two requests have highlighted, the second having made its first access
\* while the first was awaiting the construction.
C28_Witness ==
    \E r, o \in HighlightRequests :
        /\ r # o
        /\ shiki.requests[r].pc = "highlighted"
        /\ shiki.requests[o].pc = "highlighted"
        /\ ~shiki.requests[r].joined
        /\ shiki.requests[o].joined
        /\ shiki.requests[o].awaits # Nullish
        /\ shiki.requests[r].awaits # Nullish

(***************************************************************************)
(* Properties of the provider-connection check                             *)
(***************************************************************************)

\* The list fetched last holds a runner of the form's datacenter and name.
ListedAsConnected ==
    /\ conn.queryData # Nullish
    /\ [datacenter |-> conn.form.datacenter, name |-> conn.form.runnerName]
          \in conn.queryData[1]

\* C29: while the check is mounted the runner list is fetched again every
\* 1000 ms (a fetch is in flight or the interval is armed), and after every
\* fetch and every form change the form's success field tells whether the list
\* fetched last holds a runner whose datacenter and name are the form's
\* current datacenter and runnerName.
C29_SuccessFollowsRunnerList ==
    conn.mounted =>
        /\ conn.interval = <<1000>>
        /\ conn.form.success = ListedAsConnected

\* The success field is false again after it was true: the list fetched last
\* holds runners, one of them of the form's runner name, but none of the
\* form's datacenter and name.
C29_Witness ==
    /\ conn.mounted
    /\ conn.wasSuccess
    /\ ~conn.form.success
    /\ conn.queryData # Nullish
    /\ conn.form.datacenter # NotEntered
    /\ conn.form.runnerName # NotEntered
    /\ \E runner \in conn.queryData[1] : runner.name = conn.form.runnerName

====
